---------------------------- MODULE Spec2Model ----------------------------
(***************************************************************************)
(* The base worker of internal/internal_worker_base.go: a fixed set of     *)
(* poller routines, one task dispatcher routine and one processor routine  *)
(* per task, coordinated by the buffered channel pollerRequestCh (the      *)
(* permits), the unbuffered channel taskQueueCh (the handoff), the stop    *)
(* channel stopCh, the limiter context and the WaitGroup stopWG.           *)
(*                                                                         *)
(* Routines of one kind carry no data of their own (a task is opaque), so  *)
(* the pollers and the processors are kept as the number of routines at    *)
(* each program point.                                                     *)
(***************************************************************************)
EXTENDS Integers, FiniteSets, Sequences, TLC

(* ------------------------------ bounds -------------------------------- *)
MaxPollerCount == 2
MaxConcurrentTask == 2
MaxLocalTasks == 1
MaxPanics == 1
MaxBackoffLevel == 2
MaxFailures == 12
MaxCalls == 3
MaxTasks == 3
MaxCallers == 2
MaxRequests == 3

VARIABLES
    options,            \* baseWorkerOptions: pollerCount, pollerRate, maxConcurrentTask, userContextCancel
    sessionTokenBucket, \* TRUE when the worker was built with a session token bucket
    isWorkerStarted,    \* baseWorker.isWorkerStarted
    stopCh,             \* "open" or "closed"
    stopWG,             \* counter of the WaitGroup
    limiterContext,     \* "live" or "cancelled"
    retrier,            \* failure count of the shared retrier
    pollerRequestCh,    \* number of permits buffered in the channel
    pollers,            \* program point -> number of poller routines there
    dispatcher,         \* [pc, i]: program point of runTaskDispatcher, seeding index
    processors,         \* task kind -> number of processTask routines inside ProcessTask()
    metrics,            \* WorkerStartCounter, PollerStartCounter, WorkerPanicCounter
    caller,             \* program point of the routine calling Start()/Stop()
    stopResult,         \* outcome of the last awaitWaitGroup in Stop()
    userContextCancelCalls, \* invocations of options.userContextCancel
    panics,             \* history: ProcessTask() calls that panicked
    lastNoop,           \* history: the last call that returned at its guard since
                        \* the stop signal was set or, before that, since construction:
                        \* "Start" (line 197), "Stop" (line 342) or "none"
    backoffs,           \* history: the delays the retrier computed, in order
    header,             \* the header test in progress: the header it started with
                        \* (initial), the header now (Fields), the pairs to set
                        \* (vals), the keys not yet set (pending)
    calls,              \* history: task envelopes the dispatcher received and
                        \* ProcessTask() invocations begun
    wrapper             \* the metrics wrapper of the service client: childScopes,
                        \* mutex, the scopes of the parent scope and their
                        \* metrics, and the routines calling into the wrapper

vars == <<options, sessionTokenBucket, isWorkerStarted, stopCh, stopWG,
          limiterContext, retrier, pollerRequestCh, pollers, dispatcher,
          processors, metrics, caller, stopResult, userContextCancelCalls,
          panics, lastNoop, backoffs, header, calls, wrapper>>

(* ------------------------- program points ----------------------------- *)
\* runPoller/pollTask: "start" (launched, line 231 not yet run), "select"
\* (line 234), "session" (line 239), "Throttle" (line 275), "Wait" (line 276,
\* blocked in pollLimiter.Wait), "PollTask" (line 277), "send" (line 289),
\* "done" (returned).
PollerPcs == {"start", "select", "session", "Throttle", "Wait", "PollTask", "send", "done"}

\* Program points at which a poller holds the permit it took at line 237.
PollerHolding == {"session", "Throttle", "Wait", "PollTask", "send"}

TaskKinds == {"polled", "local"}

\* How a ProcessTask() call ends.
ProcessResults == {"ok", "error", "panic"}

\* What PollTask() hands back: a task, nothing, or an error of either class.
PollResults == {"task", "none", "transient", "nontransient"}

Move(f, from, to) == [f EXCEPT ![from] = @ - 1, ![to] = @ + 1]

SumOver(f, S) ==
    LET RECURSIVE Sum(_)
        Sum(T) == IF T = {} THEN 0
                  ELSE LET x == CHOOSE y \in T : TRUE IN f[x] + Sum(T \ {x})
    IN Sum(S)

isStop == stopCh = "closed"

(* -------------------------- metrics wrapper ---------------------------- *)
\* The routines that call into one wrapper, and the scope names they use
\* (lines 61-62 of part_000).
Callers == 1..MaxCallers
ScopeNames == {"PollForActivityTask", "PollForDecisionTask"}

\* A routine that is in no call of the wrapper.
IdleCaller == [pc |-> "idle", scopeName |-> "none", scope |-> 0,
               result |-> "none", err |-> "none", returned |-> <<>>]

\* NewWorkflowServiceWrapperGRPC, lines 92-95: an empty childScopes map and an
\* unlocked mutex; the parent scope has no sub-scope yet.
NoWrapper ==
    [childScopes |-> [n \in {} |-> 0],
     mutex |-> 0,
     SubScopeCalls |-> [n \in ScopeNames |-> 0],
     scopes |-> <<>>,
     callers |-> [c \in Callers |-> IdleCaller]]

\* A tally scope as the wrapper uses it: its name and the counters and timer
\* of lines 112 and 118-128.
NewScope(name) ==
    [name |-> name, CadenceRequest |-> 0, CadenceLatency |-> 0,
     CadenceInvalidRequest |-> 0, CadenceError |-> 0]

\* What the wrapped service hands back: a response or nil, and nil or an error
\* with the code yarpcerrors.FromError gives it ("Unknown" for an error that
\* is no yarpc status).
ServiceResults == {"response", "nil"}
ErrorCodes == {"NotFound", "InvalidArgument", "AlreadyExists", "Internal", "Unknown"}
ServiceErrors == {"nil"} \cup ErrorCodes

\* Line 122: the codes counted as invalid requests.
InvalidRequestCodes == {"NotFound", "InvalidArgument", "AlreadyExists"}

\* Calls of the wrapper begun so far: the completed ones have recorded their
\* latency, the others are in progress.
RequestsBegun ==
    LET RECURSIVE Recorded(_)
        Recorded(i) == IF i = 0 THEN 0
                       ELSE wrapper.scopes[i].CadenceLatency + Recorded(i - 1)
    IN Recorded(Len(wrapper.scopes))
       + Cardinality({c \in Callers :
                        wrapper.callers[c].pc \notin {"idle", "return"}})

WrapperFrame ==
    UNCHANGED <<options, sessionTokenBucket, isWorkerStarted, stopCh, stopWG,
                limiterContext, retrier, pollerRequestCh, pollers, dispatcher,
                processors, metrics, caller, stopResult, userContextCancelCalls,
                panics, lastNoop, backoffs, header, calls>>

\* Lines 209-210 (and the same lines of every wrapped method): routine c enters
\* a wrapped method, which calls getOperationScope with the method's scope
\* name, which calls getScope.
WrappedCall(c, name) ==
    /\ wrapper.callers[c].pc = "idle"
    /\ RequestsBegun < MaxRequests
    /\ wrapper' = [wrapper EXCEPT !.callers[c] =
                        [IdleCaller EXCEPT !.pc = "Lock", !.scopeName = name]]
    /\ WrapperFrame

WrappedCall_step == \E c \in Callers, name \in ScopeNames : WrappedCall(c, name)

\* getScope without the mutex: the routine goes on whoever holds it.
Lock_noMutex(c) ==
    /\ wrapper.callers[c].pc = "Lock"
    /\ wrapper' = [wrapper EXCEPT !.callers[c].pc = "lookup"]
    /\ WrapperFrame

\* Line 98: w.mutex.Lock().
Lock(c) ==
    /\ wrapper.callers[c].pc = "Lock"
    /\ wrapper.mutex = 0
    /\ wrapper' = [wrapper EXCEPT !.mutex = c, !.callers[c].pc = "lookup"]
    /\ WrapperFrame

getScope_Lock == \E c \in Callers : Lock(c)

\* Lines 99-103: the lookup in childScopes; on a hit the mutex is unlocked and
\* the cached scope returned.
getScope_lookup ==
    \E c \in Callers :
        /\ wrapper.callers[c].pc = "lookup"
        /\ LET name == wrapper.callers[c].scopeName IN
           IF name \in DOMAIN wrapper.childScopes
           THEN wrapper' = [wrapper EXCEPT !.mutex = 0,
                                           !.callers[c].scope = wrapper.childScopes[name],
                                           !.callers[c].pc = "Inc"]
           ELSE wrapper' = [wrapper EXCEPT !.callers[c].pc = "SubScope"]
        /\ WrapperFrame

\* Line 104: scope = w.scope.SubScope(scopeName); the parent scope makes a
\* scope of its own for every invocation.
getScope_SubScope ==
    \E c \in Callers :
        /\ wrapper.callers[c].pc = "SubScope"
        /\ LET name == wrapper.callers[c].scopeName IN
           wrapper' = [wrapper EXCEPT !.scopes = Append(@, NewScope(name)),
                                      !.SubScopeCalls[name] = @ + 1,
                                      !.callers[c].scope = Len(wrapper.scopes) + 1,
                                      !.callers[c].pc = "store"]
        /\ WrapperFrame

\* Lines 105-107: the scope is stored under its name, the mutex unlocked and
\* the scope returned.
getScope_store ==
    \E c \in Callers :
        /\ wrapper.callers[c].pc = "store"
        /\ LET name == wrapper.callers[c].scopeName
               scope == wrapper.callers[c].scope
           IN wrapper' = [wrapper EXCEPT
                            !.childScopes = [n \in DOMAIN @ \cup {name} |->
                                                IF n = name THEN scope ELSE @[n]],
                            !.mutex = 0,
                            !.callers[c].pc = "Inc"]
        /\ WrapperFrame

\* Lines 112-113: scope.Counter(CadenceRequest).Inc(1); the operation scope
\* holds the scope. Line 211: the call of the wrapped service begins.
getOperationScope_Inc ==
    \E c \in Callers :
        /\ wrapper.callers[c].pc = "Inc"
        /\ wrapper' = [wrapper EXCEPT
                          !.scopes[wrapper.callers[c].scope].CadenceRequest = @ + 1,
                          !.callers[c].pc = "service"]
        /\ WrapperFrame

\* Line 211: the wrapped service returns result and err.
service_returns ==
    \E c \in Callers, result \in ServiceResults, err \in ServiceErrors :
        /\ wrapper.callers[c].pc = "service"
        /\ wrapper' = [wrapper EXCEPT !.callers[c].result = result,
                                      !.callers[c].err = err,
                                      !.callers[c].pc = "handleError"]
        /\ WrapperFrame

\* handleError counting every error, whatever its code, as an error.
ErrorCounter_noCodes(err) ==
    IF err = "nil" THEN "none" ELSE "CadenceError"

\* Lines 119-128: the counter handleError increments for err.
ErrorCounter(err) ==
    IF err = "nil" THEN "none"
    ELSE IF err \in InvalidRequestCodes THEN "CadenceInvalidRequest"
    ELSE "CadenceError"

\* Lines 117-130 (called at line 212): the latency is recorded, and for a
\* non-nil error one counter incremented.
handleError ==
    \E c \in Callers :
        /\ wrapper.callers[c].pc = "handleError"
        /\ LET i == wrapper.callers[c].scope
               counter == ErrorCounter(wrapper.callers[c].err)
           IN wrapper' = [wrapper EXCEPT
                  !.scopes[i] =
                      [@ EXCEPT !.CadenceLatency = @ + 1,
                                !.CadenceInvalidRequest =
                                    IF counter = "CadenceInvalidRequest" THEN @ + 1 ELSE @,
                                !.CadenceError =
                                    IF counter = "CadenceError" THEN @ + 1 ELSE @],
                  !.callers[c].pc = "return"]
        /\ WrapperFrame

\* The wrapped method returning nil for the result when err is not nil.
Returned_nilOnError(result, err) ==
    IF err = "nil" THEN <<result, err>> ELSE <<"nil", err>>

\* Line 213: return result, err.
Returned(result, err) == <<result, err>>

WrappedCall_return ==
    \E c \in Callers :
        /\ wrapper.callers[c].pc = "return"
        /\ wrapper' = [wrapper EXCEPT
                          !.callers[c].returned =
                              Returned(wrapper.callers[c].result, wrapper.callers[c].err),
                          !.callers[c].pc = "idle"]
        /\ WrapperFrame

(* ------------------------------ history -------------------------------- *)
\* No envelope received, no ProcessTask() begun.
NoCalls == [received |-> 0, ProcessTask |-> 0]

(* ------------------------------ headers -------------------------------- *)
\* The keys and values of the header tests.
HeaderKeys == {"key1", "key2"}
HeaderValues == {"val1", "val2", "unexpected"}

\* map[string][]byte over the keys and values of the tests.
HeaderMaps == UNION {[D -> HeaderValues] : D \in SUBSET HeaderKeys}

EmptyHeader == [k \in {} |-> "val1"]

\* No header test in progress.
NoHeaderTest ==
    [initial |-> EmptyHeader, Fields |-> EmptyHeader, vals |-> EmptyHeader, pending |-> {}]

\* A Set that keeps the value of a key the header already has.
Set_keepsExisting(fields, key, val) ==
    [k \in DOMAIN fields \cup {key} |-> IF k \in DOMAIN fields THEN fields[k] ELSE val]

\* headerWriter.Set(key, val): the field key of the header becomes val.
Set(fields, key, val) ==
    [k \in DOMAIN fields \cup {key} |-> IF k = key THEN val ELSE fields[k]]

(* ------------------------------ retrier -------------------------------- *)
\* Lines 47-50, in milliseconds.
retryPollOperationInitialInterval == 20
retryPollOperationMaxInterval == 10000

\* backoff.NoInterval: the interval is not limited.
NoInterval == 0

\* The retry policy built without SetMaximumInterval.
createPollRetryPolicy_noMaximum ==
    [initialInterval |-> retryPollOperationInitialInterval,
     backoffCoefficient |-> 2,
     maximumInterval |-> NoInterval,
     expirationInterval |-> NoInterval]

\* Lines 159-169: exponential from the initial interval (the coefficient is
\* the default of NewExponentialRetryPolicy), capped, never expiring.
createPollRetryPolicy ==
    [initialInterval |-> retryPollOperationInitialInterval,
     backoffCoefficient |-> 2,
     maximumInterval |-> retryPollOperationMaxInterval,
     expirationInterval |-> NoInterval]

\* The result of ComputeNextDelay for a policy that has expired.
done == -1

\* The interval of the policy for the attempts-th consecutive failure.
NextInterval(policy, attempts) ==
    LET next == policy.initialInterval * policy.backoffCoefficient ^ (attempts - 1)
    IN IF policy.maximumInterval /= NoInterval /\ next > policy.maximumInterval
       THEN policy.maximumInterval
       ELSE next

\* The time slept in the backoffs of the first attempts consecutive failures.
RECURSIVE ElapsedTime(_, _)
ElapsedTime(policy, attempts) ==
    IF attempts = 0 THEN 0
    ELSE NextInterval(policy, attempts) + ElapsedTime(policy, attempts - 1)

\* RetryPolicy.ComputeNextDelay: the next interval, or done once the
\* expiration interval would be passed.
ComputeNextDelay(policy, elapsedTime, attempts) ==
    LET next == NextInterval(policy, attempts)
    IN IF policy.expirationInterval /= NoInterval
          /\ elapsedTime + next > policy.expirationInterval
       THEN done
       ELSE next

\* ConcurrentRetrier over the policy of createPollRetryPolicy: its state is the
\* count of consecutive failures. Failed() counts one more, Succeeded() resets,
\* Throttle() sleeps for the delay computed from the count (none at zero).
Failed(r) == r + 1
Succeeded(r) == 0
Throttle(r) ==
    IF r = 0 THEN 0
    ELSE ComputeNextDelay(createPollRetryPolicy,
                          ElapsedTime(createPollRetryPolicy, r - 1), r)

\* Failure counts from cap on are kept as cap.
Saturate(r, cap) == IF r > cap THEN cap ELSE r

(* --------------------------- construction ------------------------------ *)
newBaseWorker(opts, bucket) ==
    /\ options = opts
    /\ sessionTokenBucket = bucket
    /\ isWorkerStarted = FALSE
    /\ stopCh = "open"
    /\ stopWG = 0
    /\ limiterContext = "live"
    /\ retrier = 0
    /\ pollerRequestCh = 0
    /\ pollers = [pc \in PollerPcs |-> 0]
    /\ dispatcher = [pc |-> "none", i |-> 0]
    /\ processors = [k \in TaskKinds |-> 0]
    /\ metrics = [WorkerStartCounter |-> 0, PollerStartCounter |-> 0, WorkerPanicCounter |-> 0]

Init ==
    /\ \E pc \in 1..MaxPollerCount, mct \in 1..MaxConcurrentTask,
          rate \in {0, 1}, ucc \in BOOLEAN, bucket \in BOOLEAN :
            newBaseWorker([pollerCount |-> pc, pollerRate |-> rate,
                           maxConcurrentTask |-> mct, userContextCancel |-> ucc],
                          bucket)
    /\ caller = "idle"
    /\ stopResult = "none"
    /\ userContextCancelCalls = 0
    /\ panics = 0
    /\ lastNoop = "none"
    /\ backoffs = <<>>
    /\ header = NoHeaderTest
    /\ calls = NoCalls
    /\ wrapper = NoWrapper


(* ------------------------------- Start --------------------------------- *)
\* One poller routine launched per permit instead of pollerCount of them.
StartRoutines_pollerPerPermit ==
    /\ metrics' = [metrics EXCEPT !.WorkerStartCounter = @ + 1]
    /\ pollers' = [pollers EXCEPT !["start"] = @ + options.maxConcurrentTask]
    /\ dispatcher' = [pc |-> "seed", i |-> 0]
    /\ stopWG' = stopWG + options.maxConcurrentTask + 1
    /\ isWorkerStarted' = TRUE

\* Lines 202-208: pollerCount poller routines and one dispatcher routine are
\* launched, each registered with the WaitGroup before its go statement.
StartRoutines ==
    /\ metrics' = [metrics EXCEPT !.WorkerStartCounter = @ + 1]
    /\ pollers' = [pollers EXCEPT !["start"] = @ + options.pollerCount]
    /\ dispatcher' = [pc |-> "seed", i |-> 0]
    /\ stopWG' = stopWG + options.pollerCount + 1
    /\ isWorkerStarted' = TRUE

\* Start() without the isWorkerStarted guard of lines 196-198.
Start_noGuard ==
    /\ caller = "idle"
    /\ StartRoutines
    /\ UNCHANGED <<options, sessionTokenBucket, stopCh, limiterContext, retrier,
                   pollerRequestCh, processors, caller, stopResult,
                   userContextCancelCalls, panics>>

\* Lines 195-218.
Start ==
    /\ caller = "idle"
    /\ IF isWorkerStarted
       THEN UNCHANGED <<metrics, pollers, dispatcher, stopWG, isWorkerStarted>>
       ELSE StartRoutines
    /\ UNCHANGED <<options, sessionTokenBucket, stopCh, limiterContext, retrier,
                   pollerRequestCh, processors, caller, stopResult,
                   userContextCancelCalls, panics>>

Start_call == Start /\ UNCHANGED <<lastNoop, backoffs, header, calls, wrapper>>

\* Start() with the history kept.
Start_recorded ==
    /\ Start
    /\ lastNoop' = IF isWorkerStarted THEN "Start" ELSE lastNoop
    /\ UNCHANGED <<backoffs, header, calls, wrapper>>

(* -------------------------------- Stop --------------------------------- *)
\* Stop() without the isWorkerStarted guard of lines 341-343.
Stop_close_noGuard ==
    /\ caller = "idle"
    /\ IF stopCh = "closed"
       THEN caller' = "panic" /\ UNCHANGED stopCh
       ELSE stopCh' = "closed" /\ caller' = "Stop_cancel"
    /\ UNCHANGED <<options, sessionTokenBucket, isWorkerStarted, stopWG,
                   limiterContext, retrier, pollerRequestCh, pollers, dispatcher,
                   processors, metrics, stopResult, userContextCancelCalls,
                   panics>>

\* Stop() clearing isWorkerStarted, as a worker that can be started again would.
Stop_close_restartable ==
    /\ caller = "idle"
    /\ IF ~isWorkerStarted
       THEN UNCHANGED <<stopCh, caller, isWorkerStarted>>
       ELSE IF stopCh = "closed"
            THEN caller' = "panic" /\ UNCHANGED <<stopCh, isWorkerStarted>>
            ELSE stopCh' = "closed" /\ caller' = "Stop_cancel" /\ isWorkerStarted' = FALSE
    /\ UNCHANGED <<options, sessionTokenBucket, stopWG,
                   limiterContext, retrier, pollerRequestCh, pollers, dispatcher,
                   processors, metrics, stopResult, userContextCancelCalls,
                   panics>>

\* Lines 341-344. close() of a closed channel panics in the calling routine.
Stop_close ==
    /\ caller = "idle"
    /\ IF ~isWorkerStarted
       THEN UNCHANGED <<stopCh, caller>>
       ELSE IF stopCh = "closed"
            THEN caller' = "panic" /\ UNCHANGED stopCh
            ELSE stopCh' = "closed" /\ caller' = "Stop_cancel"
    /\ UNCHANGED <<options, sessionTokenBucket, isWorkerStarted, stopWG,
                   limiterContext, retrier, pollerRequestCh, pollers, dispatcher,
                   processors, metrics, stopResult, userContextCancelCalls,
                   panics>>

Stop_call == Stop_close /\ UNCHANGED <<lastNoop, backoffs, header, calls, wrapper>>

\* Stop() with the history kept.
Stop_recorded ==
    /\ Stop_close
    /\ lastNoop' = IF ~isWorkerStarted THEN "Stop"
                   ELSE IF stopCh = "open" THEN "none" ELSE lastNoop
    /\ UNCHANGED <<backoffs, header, calls, wrapper>>

\* Stop() with a mark kept when the call that closes stopCh finds a poller
\* blocked in pollLimiter.Wait, or at the handoff with the dispatcher not at
\* its select: the mark says where.
Stop_whileBlocked ==
    /\ Stop_close
    /\ backoffs' = IF isWorkerStarted /\ stopCh = "open" /\ pollers["Wait"] > 0
                   THEN <<[res |-> "Wait", delay |-> NoInterval]>>
                   ELSE IF isWorkerStarted /\ stopCh = "open" /\ pollers["send"] > 0
                           /\ dispatcher.pc /= "select"
                   THEN <<[res |-> "send", delay |-> NoInterval]>>
                   ELSE backoffs
    /\ UNCHANGED <<lastNoop, header, calls, wrapper>>

\* Stop() calling userContextCancel together with limiterContextCancel, before
\* the wait for the routines.
Stop_cancel_closesUserContext ==
    /\ caller = "Stop_cancel"
    /\ limiterContext' = "cancelled"
    /\ caller' = "Stop_await"
    /\ userContextCancelCalls' = IF options.userContextCancel
                                 THEN userContextCancelCalls + 1
                                 ELSE userContextCancelCalls
    /\ UNCHANGED <<options, sessionTokenBucket, isWorkerStarted, stopCh, stopWG,
                   retrier, pollerRequestCh, pollers, dispatcher, processors,
                   metrics, stopResult, panics, lastNoop,
                   backoffs, header, calls, wrapper>>

\* Line 345.
Stop_cancel ==
    /\ caller = "Stop_cancel"
    /\ limiterContext' = "cancelled"
    /\ caller' = "Stop_await"
    /\ UNCHANGED <<options, sessionTokenBucket, isWorkerStarted, stopCh, stopWG,
                   retrier, pollerRequestCh, pollers, dispatcher, processors,
                   metrics, stopResult, userContextCancelCalls, panics, lastNoop,
                   backoffs, header, calls, wrapper>>

\* awaitWaitGroup(wg, timeout): the results it can return with the counter at wg.
\* true when the counter is zero, false when the timeout elapses first.
awaitWaitGroup(wg) == IF wg = 0 THEN {"drained", "timeout"} ELSE {"timeout"}

\* Lines 353-356.
CloseUserContext(n) == IF options.userContextCancel THEN n + 1 ELSE n

\* Stop() waiting with stopWG.Wait(), without the stop timeout.
Stop_await_noTimeout ==
    /\ caller = "Stop_await"
    /\ stopWG = 0
    /\ stopResult' = "drained"
    /\ userContextCancelCalls' = CloseUserContext(userContextCancelCalls)
    /\ caller' = "idle"
    /\ UNCHANGED <<options, sessionTokenBucket, isWorkerStarted, stopCh, stopWG,
                   limiterContext, retrier, pollerRequestCh, pollers, dispatcher,
                   processors, metrics, panics, lastNoop, backoffs, header, calls, wrapper>>

\* Lines 347-357: the drain wait ends, the user context is closed, Stop returns.
Stop_await ==
    /\ caller = "Stop_await"
    /\ \E success \in awaitWaitGroup(stopWG) : stopResult' = success
    /\ userContextCancelCalls' = CloseUserContext(userContextCancelCalls)
    /\ caller' = "idle"
    /\ UNCHANGED <<options, sessionTokenBucket, isWorkerStarted, stopCh, stopWG,
                   limiterContext, retrier, pollerRequestCh, pollers, dispatcher,
                   processors, metrics, panics, lastNoop, backoffs, header, calls, wrapper>>


(* ------------------------------ channels ------------------------------- *)
\* The permit channel sized by the number of pollers.
PermitCap_pollerCount == options.pollerCount

\* cap(pollerRequestCh), line 180.
PermitCap == options.maxConcurrentTask

\* A send on pollerRequestCh completes only while the buffer has room.
CanSendPermit == pollerRequestCh < PermitCap

(* ------------------------------ pollers -------------------------------- *)
\* Everything a poller step leaves alone.
PollerLocals ==
    UNCHANGED <<options, sessionTokenBucket, isWorkerStarted, stopCh,
                limiterContext, processors, caller, stopResult,
                userContextCancelCalls, panics, lastNoop, header, calls, wrapper>>

PollerFrame == PollerLocals /\ UNCHANGED backoffs

\* Line 231.
runPoller_start ==
    /\ pollers["start"] > 0
    /\ pollers' = Move(pollers, "start", "select")
    /\ metrics' = [metrics EXCEPT !.PollerStartCounter = @ + 1]
    /\ UNCHANGED <<stopWG, retrier, pollerRequestCh, dispatcher>>
    /\ PollerFrame

\* A poller whose select prefers the permit: it returns on the stop signal only
\* when the permit channel is empty.
runPoller_stop_afterPermits ==
    /\ pollers["select"] > 0
    /\ isStop
    /\ pollerRequestCh = 0
    /\ pollers' = Move(pollers, "select", "done")
    /\ stopWG' = stopWG - 1
    /\ UNCHANGED <<retrier, pollerRequestCh, dispatcher, metrics>>
    /\ PollerFrame

\* Lines 235-236 and the deferred stopWG.Done() of line 230.
runPoller_stop ==
    /\ pollers["select"] > 0
    /\ isStop
    /\ pollers' = Move(pollers, "select", "done")
    /\ stopWG' = stopWG - 1
    /\ UNCHANGED <<retrier, pollerRequestCh, dispatcher, metrics>>
    /\ PollerFrame

\* Lines 238-240: the session gate, when there is one, comes first.
AfterPermit == IF sessionTokenBucket THEN "session" ELSE "Throttle"

\* Permits handed out by the dispatcher loop itself, so only between two tasks.
runPoller_request_byDispatcher ==
    /\ pollers["select"] > 0
    /\ pollerRequestCh > 0
    /\ dispatcher.pc = "select"
    /\ pollerRequestCh' = pollerRequestCh - 1
    /\ pollers' = Move(pollers, "select", AfterPermit)
    /\ UNCHANGED <<stopWG, retrier, dispatcher, metrics>>
    /\ PollerFrame

\* Lines 237-241: a permit is received; select does not prefer the stop case.
runPoller_request ==
    /\ pollers["select"] > 0
    /\ pollerRequestCh > 0
    /\ pollerRequestCh' = pollerRequestCh - 1
    /\ pollers' = Move(pollers, "select", AfterPermit)
    /\ UNCHANGED <<stopWG, retrier, dispatcher, metrics>>
    /\ PollerFrame

\* Line 239: waitForAvailableToken() returns when the session gate grants a token.
waitForAvailableToken ==
    /\ pollers["session"] > 0
    /\ pollers' = Move(pollers, "session", "Throttle")
    /\ UNCHANGED <<stopWG, retrier, pollerRequestCh, dispatcher, metrics>>
    /\ PollerFrame

\* rate.Limiter.Wait(ctx) on entry: an error at once when ctx is already
\* cancelled, otherwise a token at once or a wait for one.
WaitEntry(ctx) == IF ctx = "cancelled" THEN {"error"} ELSE {"token", "block"}

\* rate.Limiter.Wait(ctx) while blocked: the token arrives, or ctx is cancelled.
WaitBlocked(ctx) == IF ctx = "cancelled" THEN {"token", "error"} ELSE {"token"}

\* pollTask without line 294: a poll without a task keeps its permit.
Rearm_noPermit(from) ==
    /\ pollers' = Move(pollers, from, "select")
    /\ UNCHANGED pollerRequestCh

\* The permit sent inside a loop of pollTask: the poller polls on.
Rearm_keepsPolling(from) ==
    /\ CanSendPermit
    /\ pollerRequestCh' = pollerRequestCh + 1
    /\ pollers' = Move(pollers, from, "Throttle")

\* Line 294 (task == nil): the permit goes back, the poller is at the select again.
Rearm(from) ==
    /\ CanSendPermit
    /\ pollerRequestCh' = pollerRequestCh + 1
    /\ pollers' = Move(pollers, from, "select")

\* Lines 275-276: Throttle() returns; the poll limiter, when there is one, is entered.
PollLimiterEntry == IF options.pollerRate > 0 THEN WaitEntry(limiterContext) ELSE {"token"}

ThrottleReturns ==
    /\ pollers["Throttle"] > 0
    /\ \E r \in PollLimiterEntry :
         CASE r = "token" -> pollers' = Move(pollers, "Throttle", "PollTask")
                             /\ UNCHANGED pollerRequestCh
           [] r = "block" -> pollers' = Move(pollers, "Throttle", "Wait")
                             /\ UNCHANGED pollerRequestCh
           [] r = "error" -> Rearm("Throttle")
    /\ UNCHANGED <<stopWG, retrier, dispatcher, metrics>>
    /\ PollerLocals

pollTask_Throttle == ThrottleReturns /\ UNCHANGED backoffs

\* The same step with the delay Throttle() slept kept as the history.
pollTask_Throttle_recorded ==
    /\ ThrottleReturns
    /\ backoffs' = <<[res |-> "Throttle", delay |-> Throttle(retrier)]>>

\* Line 276: the blocked pollLimiter.Wait returns.
PollLimiterWaitReturns ==
    /\ pollers["Wait"] > 0
    /\ \E r \in WaitBlocked(limiterContext) :
         CASE r = "token" -> pollers' = Move(pollers, "Wait", "PollTask")
                             /\ UNCHANGED pollerRequestCh
           [] r = "error" -> Rearm("Wait")
    /\ UNCHANGED <<stopWG, retrier, dispatcher, metrics>>
    /\ PollerLocals

pollTask_Wait == PollLimiterWaitReturns /\ UNCHANGED backoffs

\* The same step with the mark of Stop_whileBlocked taken off.
pollTask_Wait_recorded == PollLimiterWaitReturns /\ backoffs' = <<>>

\* Succeeded() called after every poll, failed or not.
RetrierUpdate_ignoresErrors(res, r) == Succeeded(r)

\* Every poll error counted as a failure, the non-transient ones too.
RetrierUpdate_errorsFail(res, r) ==
    IF res \in {"transient", "nontransient"} THEN Failed(r) ELSE Succeeded(r)

\* Lines 281-285.
RetrierUpdate(res, r) == IF res = "transient" THEN Failed(r) ELSE Succeeded(r)

\* pollTask with an error of the non-transient class ending the poller.
pollTask_PollTask_fatal ==
    /\ pollers["PollTask"] > 0
    /\ \E res \in PollResults :
         /\ retrier' = Saturate(RetrierUpdate(res, retrier), MaxBackoffLevel)
         /\ CASE res = "task" ->
                   pollers' = Move(pollers, "PollTask", "send")
                   /\ UNCHANGED <<pollerRequestCh, stopWG>>
              [] res = "nontransient" ->
                   pollers' = Move(pollers, "PollTask", "done")
                   /\ stopWG' = stopWG - 1
                   /\ UNCHANGED pollerRequestCh
              [] OTHER -> Rearm("PollTask") /\ UNCHANGED stopWG
    /\ UNCHANGED <<dispatcher, metrics>>
    /\ PollerFrame

\* pollTask returning on a poll error before line 294.
PollTaskReturns_errorSkipsRearm(res, cap) ==
    /\ retrier' = Saturate(RetrierUpdate(res, retrier), cap)
    /\ CASE res = "task" ->
              pollers' = Move(pollers, "PollTask", "send") /\ UNCHANGED pollerRequestCh
         [] res = "none" -> Rearm("PollTask")
         [] OTHER ->
              pollers' = Move(pollers, "PollTask", "select") /\ UNCHANGED pollerRequestCh

\* pollTask looping on a transient error with its permit in hand: back to
\* Throttle() without line 294.
PollTaskReturns_retryHoldsPermit(res, cap) ==
    /\ retrier' = Saturate(RetrierUpdate(res, retrier), cap)
    /\ CASE res = "task" ->
              pollers' = Move(pollers, "PollTask", "send") /\ UNCHANGED pollerRequestCh
         [] res = "transient" ->
              pollers' = Move(pollers, "PollTask", "Throttle") /\ UNCHANGED pollerRequestCh
         [] OTHER -> Rearm("PollTask")

\* Lines 277-295: PollTask() returns res; the retrier is updated; without a
\* task the permit goes back at once, with one the poller goes to the handoff.
PollTaskReturns(res, cap) ==
    /\ retrier' = Saturate(RetrierUpdate(res, retrier), cap)
    /\ IF res = "task"
       THEN pollers' = Move(pollers, "PollTask", "send") /\ UNCHANGED pollerRequestCh
       ELSE Rearm("PollTask")

pollTask_PollTask ==
    /\ pollers["PollTask"] > 0
    /\ \E res \in PollResults : PollTaskReturns(res, MaxBackoffLevel)
    /\ UNCHANGED <<stopWG, dispatcher, metrics>>
    /\ PollerFrame

\* The same step when every PollTask() returns a transient error. Failure
\* counts are kept up to MaxFailures, past the count at which the delay
\* reaches the maximum interval.
pollTask_PollTask_failing ==
    /\ pollers["PollTask"] > 0
    /\ PollTaskReturns("transient", MaxFailures)
    /\ UNCHANGED <<stopWG, dispatcher, metrics>>
    /\ PollerFrame

\* The same step when every PollTask() returns a task without error.
pollTask_PollTask_task ==
    /\ pollers["PollTask"] > 0
    /\ PollTaskReturns("task", MaxBackoffLevel)
    /\ UNCHANGED <<stopWG, dispatcher, metrics>>
    /\ PollerFrame

\* The step of pollTask_PollTask with the result of the poll and the delay
\* the retrier has then computed kept as the history.
pollTask_PollTask_recorded ==
    /\ pollers["PollTask"] > 0
    /\ \E res \in PollResults :
         /\ PollTaskReturns(res, MaxBackoffLevel)
         /\ backoffs' = <<[res |-> res, delay |-> Throttle(retrier')]>>
    /\ UNCHANGED <<stopWG, dispatcher, metrics>>
    /\ PollerLocals

\* The handoff with a default case instead of case <-bw.stopCh.
pollTask_dropTask_default ==
    /\ pollers["send"] > 0
    /\ pollers' = Move(pollers, "send", "select")
    /\ UNCHANGED <<stopWG, retrier, pollerRequestCh, dispatcher, metrics>>
    /\ PollerFrame

\* Lines 289-292, case <-bw.stopCh: the task is dropped; pollTask returns to
\* the loop of runPoller.
pollTask_dropTask ==
    /\ pollers["send"] > 0
    /\ isStop
    /\ pollers' = Move(pollers, "send", "select")
    /\ UNCHANGED <<stopWG, retrier, pollerRequestCh, dispatcher, metrics>>
    /\ PollerFrame

\* The same step with the mark of Stop_whileBlocked turned into the mark of
\* the dropped task.
pollTask_dropTask_recorded ==
    /\ pollers["send"] > 0
    /\ isStop
    /\ pollers' = Move(pollers, "send", "select")
    /\ backoffs' = IF backoffs /= <<>> /\ backoffs[1].res = "send"
                   THEN <<[res |-> "drop", delay |-> NoInterval]>>
                   ELSE backoffs
    /\ UNCHANGED <<stopWG, retrier, pollerRequestCh, dispatcher, metrics>>
    /\ PollerLocals

(* ----------------------------- dispatcher ------------------------------ *)
\* Everything a dispatcher step leaves alone.
DispatcherLocals ==
    UNCHANGED <<options, sessionTokenBucket, isWorkerStarted, stopCh,
                limiterContext, retrier, metrics, caller, stopResult,
                userContextCancelCalls, panics, lastNoop, backoffs, header,
                wrapper>>

DispatcherFrame == DispatcherLocals /\ UNCHANGED calls

\* The seeding loop sending one permit per poller.
SeedTarget_pollerCount == options.pollerCount

\* Lines 249-251: one send of the seeding loop.
SeedTarget == options.maxConcurrentTask

runTaskDispatcher_seed ==
    /\ dispatcher.pc = "seed"
    /\ dispatcher.i < SeedTarget
    /\ CanSendPermit
    /\ pollerRequestCh' = pollerRequestCh + 1
    /\ dispatcher' = [pc |-> IF dispatcher.i + 1 < SeedTarget THEN "seed" ELSE "select",
                      i |-> dispatcher.i + 1]
    /\ UNCHANGED <<stopWG, pollers, processors>>
    /\ DispatcherFrame

\* Lines 256-257 and the deferred stopWG.Done() of line 247.
runTaskDispatcher_stop ==
    /\ dispatcher.pc = "select"
    /\ isStop
    /\ dispatcher' = [dispatcher EXCEPT !.pc = "done"]
    /\ stopWG' = stopWG - 1
    /\ UNCHANGED <<pollerRequestCh, pollers, processors>>
    /\ DispatcherFrame

\* The processor launched without stopWG.Add(1).
AddProcessor_missing(wg) == wg

\* Line 266: stopWG.Add(1).
AddProcessor(wg) == wg + 1

\* Lines 266-267: a processor routine is registered and launched.
Spawn(kind) ==
    /\ stopWG' = AddProcessor(stopWG)
    /\ processors' = [processors EXCEPT ![kind] = @ + 1]
    /\ dispatcher' = [dispatcher EXCEPT !.pc = "select"]

\* Lines 262-264: the dispatcher returns; the task it holds is not processed.
DispatcherReturn ==
    /\ dispatcher' = [dispatcher EXCEPT !.pc = "done"]
    /\ stopWG' = stopWG - 1
    /\ UNCHANGED processors

\* The dispatcher without lines 261-265: the error of taskLimiter.Wait is
\* ignored and the processor is spawned.
AfterTaskLimiter_errorSpawns(r) ==
    CASE r = "block" -> dispatcher' = [dispatcher EXCEPT !.pc = "Wait"]
                        /\ UNCHANGED <<stopWG, processors>>
      [] OTHER -> Spawn("polled")

\* Lines 261-267 once taskLimiter.Wait has returned r for a polled task.
AfterTaskLimiter(r) ==
    CASE r = "token" -> Spawn("polled")
      [] r = "block" -> dispatcher' = [dispatcher EXCEPT !.pc = "Wait"]
                        /\ UNCHANGED <<stopWG, processors>>
      [] r = "error" -> IF isStop THEN DispatcherReturn ELSE Spawn("polled")

\* A dispatcher that takes the next polled task only when no polled task is
\* being processed.
runTaskDispatcher_polledTask_serial ==
    /\ dispatcher.pc = "select"
    /\ pollers["send"] > 0
    /\ processors["polled"] = 0
    /\ pollers' = Move(pollers, "send", "select")
    /\ \E r \in WaitEntry(limiterContext) : AfterTaskLimiter(r)
    /\ UNCHANGED pollerRequestCh
    /\ DispatcherFrame

\* A dispatcher that receives a polled task only while the permit channel holds
\* a permit.
runTaskDispatcher_polledTask_needsPermit ==
    /\ dispatcher.pc = "select"
    /\ pollers["send"] > 0
    /\ pollerRequestCh > 0
    /\ pollers' = Move(pollers, "send", "select")
    /\ \E r \in WaitEntry(limiterContext) : AfterTaskLimiter(r)
    /\ UNCHANGED pollerRequestCh
    /\ DispatcherFrame

\* Lines 258-267 with line 290: a poller hands its task over the unbuffered
\* taskQueueCh and is back at its select; the dispatcher enters the task limiter.
runTaskDispatcher_polledTask ==
    /\ dispatcher.pc = "select"
    /\ pollers["send"] > 0
    /\ pollers' = Move(pollers, "send", "select")
    /\ \E r \in WaitEntry(limiterContext) : AfterTaskLimiter(r)
    /\ UNCHANGED pollerRequestCh
    /\ DispatcherFrame

\* Line 261: the blocked taskLimiter.Wait returns.
runTaskDispatcher_Wait ==
    /\ dispatcher.pc = "Wait"
    /\ \E r \in WaitBlocked(limiterContext) : AfterTaskLimiter(r)
    /\ UNCHANGED <<pollerRequestCh, pollers>>
    /\ DispatcherFrame

LocalProcessors == processors["local"]

\* The dispatcher without the isPolledTask test of line 261: a local task
\* waits for the task limiter like a polled one.
runTaskDispatcher_localTask_limited ==
    /\ dispatcher.pc = "select"
    /\ LocalProcessors < MaxLocalTasks
    /\ \E r \in WaitEntry(limiterContext) :
         CASE r = "token" -> Spawn("local")
           [] r = "block" -> dispatcher' = [dispatcher EXCEPT !.pc = "Wait"]
                             /\ UNCHANGED <<stopWG, processors>>
           [] r = "error" -> IF isStop THEN DispatcherReturn ELSE Spawn("local")
    /\ UNCHANGED <<pollerRequestCh, pollers>>
    /\ DispatcherFrame

\* Lines 258-267 for a task that is no *polledTask (a local activity result
\* sent on taskQueueCh from outside): no task limiter, the processor is spawned.
runTaskDispatcher_localTask ==
    /\ dispatcher.pc = "select"
    /\ LocalProcessors < MaxLocalTasks
    /\ Spawn("local")
    /\ UNCHANGED <<pollerRequestCh, pollers>>
    /\ DispatcherFrame

\* The three steps in which the dispatcher has a task in hand, with the
\* envelopes received and the ProcessTask() invocations begun counted. A
\* processor launched is one ProcessTask() invocation (line 320).
Launched == IF processors' = processors THEN 0 ELSE 1

runTaskDispatcher_polledTask_recorded ==
    /\ dispatcher.pc = "select"
    /\ pollers["send"] > 0
    /\ calls.received < MaxTasks
    /\ pollers' = Move(pollers, "send", "select")
    /\ \E r \in WaitEntry(limiterContext) : AfterTaskLimiter(r)
    /\ calls' = [received |-> calls.received + 1,
                 ProcessTask |-> calls.ProcessTask + Launched]
    /\ UNCHANGED pollerRequestCh
    /\ DispatcherLocals

runTaskDispatcher_Wait_recorded ==
    /\ dispatcher.pc = "Wait"
    /\ \E r \in WaitBlocked(limiterContext) : AfterTaskLimiter(r)
    /\ calls' = [calls EXCEPT !.ProcessTask = @ + Launched]
    /\ UNCHANGED <<pollerRequestCh, pollers>>
    /\ DispatcherLocals

runTaskDispatcher_localTask_recorded ==
    /\ dispatcher.pc = "select"
    /\ LocalProcessors < MaxLocalTasks
    /\ calls.received < MaxTasks
    /\ Spawn("local")
    /\ calls' = [received |-> calls.received + 1,
                 ProcessTask |-> calls.ProcessTask + Launched]
    /\ UNCHANGED <<pollerRequestCh, pollers>>
    /\ DispatcherLocals

(* ----------------------------- processors ------------------------------ *)
ProcessorFrame ==
    UNCHANGED <<options, sessionTokenBucket, isWorkerStarted, stopCh,
                limiterContext, retrier, pollers, dispatcher, caller, stopResult,
                userContextCancelCalls, lastNoop, backoffs, header, calls, wrapper>>

\* A new poll requested after every task, polled or not.
RequestPoll_anyTask(kind, ch) == ch + 1

\* Lines 316-318: only a polled task requests a new poll.
RequestPoll(kind, ch) == IF kind = "polled" THEN ch + 1 ELSE ch

\* The panic counter incremented whether or not recover() returned a value.
CountPanic_always(p, n) == n + 1

\* Lines 307-308: recover() returned a panic value p.
CountPanic(p, n) == IF p THEN n + 1 ELSE n

\* The permit sent after ProcessTask() instead of in the deferred function: a
\* panic skips it.
Deferred_panicSkipsPermit(kind, p) ==
    /\ kind = "polled" => CanSendPermit
    /\ metrics' = [metrics EXCEPT !.WorkerPanicCounter = CountPanic(p, @)]
    /\ pollerRequestCh' = IF p THEN pollerRequestCh ELSE RequestPoll(kind, pollerRequestCh)
    /\ processors' = [processors EXCEPT ![kind] = @ - 1]
    /\ stopWG' = stopWG - 1

\* The permit sent both after ProcessTask() returned and in the deferred
\* function: a task that does not panic returns two permits.
Deferred_permitTwice(kind, p) ==
    /\ kind = "polled" => CanSendPermit
    /\ metrics' = [metrics EXCEPT !.WorkerPanicCounter = CountPanic(p, @)]
    /\ pollerRequestCh' = IF p THEN RequestPoll(kind, pollerRequestCh)
                          ELSE RequestPoll(kind, RequestPoll(kind, pollerRequestCh))
    /\ processors' = [processors EXCEPT ![kind] = @ - 1]
    /\ stopWG' = stopWG - 1

\* Lines 306-319 and line 299: the deferred function, run with recover()
\* returning a panic value (p) or nil, and the deferred Done().
Deferred(kind, p) ==
    /\ kind = "polled" => CanSendPermit
    /\ metrics' = [metrics EXCEPT !.WorkerPanicCounter = CountPanic(p, @)]
    /\ pollerRequestCh' = RequestPoll(kind, pollerRequestCh)
    /\ processors' = [processors EXCEPT ![kind] = @ - 1]
    /\ stopWG' = stopWG - 1

\* processTask reporting the outcome of ProcessTask() to the retrier: Failed()
\* on an error or a panic, Succeeded() otherwise.
processTask_updatesRetrier(kind, res) ==
    /\ processors[kind] > 0
    /\ Deferred(kind, res = "panic")
    /\ panics' = IF res = "panic" THEN panics + 1 ELSE panics
    /\ retrier' = IF res = "ok" THEN Succeeded(retrier)
                  ELSE Saturate(Failed(retrier), MaxBackoffLevel)
    /\ UNCHANGED <<options, sessionTokenBucket, isWorkerStarted, stopCh,
                   limiterContext, pollers, dispatcher, caller, stopResult,
                   userContextCancelCalls, lastNoop, backoffs, header, calls, wrapper>>

\* processTask calling ProcessTask() again when it returned an error.
processTask_retriesError(kind, res) ==
    /\ processors[kind] > 0
    /\ IF res = "error"
       THEN /\ calls.ProcessTask <= MaxTasks
            /\ calls' = [calls EXCEPT !.ProcessTask = @ + 1]
            /\ UNCHANGED <<stopWG, pollerRequestCh, processors, metrics, panics>>
       ELSE /\ Deferred(kind, res = "panic")
            /\ panics' = IF res = "panic" THEN panics + 1 ELSE panics
            /\ UNCHANGED calls
    /\ UNCHANGED <<options, sessionTokenBucket, isWorkerStarted, stopCh,
                   limiterContext, retrier, pollers, dispatcher, caller, stopResult,
                   userContextCancelCalls, lastNoop, backoffs, header, wrapper>>

\* Lines 298-328: ProcessTask() ends with res: it returns, with or without an
\* error (both only logged), or it panics; the deferred calls run and the
\* routine exits.
processTask(kind, res) ==
    /\ processors[kind] > 0
    /\ Deferred(kind, res = "panic")
    /\ panics' = IF res = "panic" THEN panics + 1 ELSE panics
    /\ ProcessorFrame

processTask_return == \E kind \in TaskKinds, res \in {"ok", "error"} : processTask(kind, res)

processTask_panic ==
    /\ panics < MaxPanics
    /\ \E kind \in TaskKinds : processTask(kind, "panic")

\* ProcessTask() ends with res when one ProcessTask() call of a polled task
\* never returns: of the polled tasks in ProcessTask(), all but one can end.
processTask_butOne ==
    \E kind \in TaskKinds, res \in ProcessResults :
        /\ kind = "polled" => processors["polled"] > 1
        /\ res = "panic" => panics < MaxPanics
        /\ processTask(kind, res)

(* ---------------------------- specification ---------------------------- *)
\* The steps of the routines of the worker and of the call in progress.
Routines ==
    \/ Stop_cancel
    \/ Stop_await
    \/ runPoller_start
    \/ runPoller_stop
    \/ runPoller_request
    \/ waitForAvailableToken
    \/ pollTask_Throttle
    \/ pollTask_Wait
    \/ pollTask_PollTask
    \/ pollTask_dropTask
    \/ runTaskDispatcher_seed
    \/ runTaskDispatcher_stop
    \/ runTaskDispatcher_polledTask
    \/ runTaskDispatcher_Wait
    \/ runTaskDispatcher_localTask
    \/ processTask_return
    \/ processTask_panic

Next == Start_call \/ Stop_call \/ Routines

Spec == Init /\ [][Next]_vars

\* The worker when every task comes from PollTask(): no task is put on
\* taskQueueCh by anything but a poller.
PolledNext ==
    \/ Start_call
    \/ Stop_call
    \/ Stop_cancel
    \/ Stop_await
    \/ runPoller_start
    \/ runPoller_stop
    \/ runPoller_request
    \/ waitForAvailableToken
    \/ pollTask_Throttle
    \/ pollTask_Wait
    \/ pollTask_PollTask
    \/ pollTask_dropTask
    \/ runTaskDispatcher_seed
    \/ runTaskDispatcher_stop
    \/ runTaskDispatcher_polledTask
    \/ runTaskDispatcher_Wait
    \/ processTask_return
    \/ processTask_panic

PolledSpec == Init /\ [][PolledNext]_vars

\* The same worker with the result of the last PollTask() kept.
RecordedPollNext ==
    \/ Start_call
    \/ Stop_call
    \/ Stop_cancel
    \/ Stop_await
    \/ runPoller_start
    \/ runPoller_stop
    \/ runPoller_request
    \/ waitForAvailableToken
    \/ pollTask_Throttle
    \/ pollTask_Wait
    \/ pollTask_PollTask_recorded
    \/ pollTask_dropTask
    \/ runTaskDispatcher_seed
    \/ runTaskDispatcher_stop
    \/ runTaskDispatcher_polledTask
    \/ runTaskDispatcher_Wait
    \/ processTask_return
    \/ processTask_panic

RecordedPollSpec == Init /\ [][RecordedPollNext]_vars

\* The worker with one poller and a poll limiter, with the mark of a Stop()
\* call made while the poller waits for a poll-rate token or is blocked at the
\* handoff kept; the poller leaving the poll limiter takes it off, the poller
\* dropping its task turns it into the mark of the drop.
WaitingStopInit ==
    /\ \E mct \in 1..MaxConcurrentTask, ucc \in BOOLEAN, bucket \in BOOLEAN :
            newBaseWorker([pollerCount |-> 1, pollerRate |-> 1,
                           maxConcurrentTask |-> mct, userContextCancel |-> ucc],
                          bucket)
    /\ caller = "idle"
    /\ stopResult = "none"
    /\ userContextCancelCalls = 0
    /\ panics = 0
    /\ lastNoop = "none"
    /\ backoffs = <<>>
    /\ header = NoHeaderTest
    /\ calls = NoCalls
    /\ wrapper = NoWrapper

WaitingStopNext ==
    \/ Start_call
    \/ Stop_whileBlocked
    \/ Stop_cancel
    \/ Stop_await
    \/ runPoller_start
    \/ runPoller_stop
    \/ runPoller_request
    \/ waitForAvailableToken
    \/ pollTask_Throttle
    \/ pollTask_Wait_recorded
    \/ pollTask_PollTask
    \/ pollTask_dropTask_recorded
    \/ runTaskDispatcher_seed
    \/ runTaskDispatcher_stop
    \/ runTaskDispatcher_polledTask
    \/ runTaskDispatcher_Wait
    \/ processTask_return
    \/ processTask_panic

WaitingStopSpec == WaitingStopInit /\ [][WaitingStopNext]_vars

\* The worker without poll limiter and session gate, with the envelopes the
\* dispatcher received and the ProcessTask() invocations counted, up to
\* MaxTasks envelopes.
InvocationInit ==
    /\ \E pc \in 1..MaxPollerCount, mct \in 1..MaxConcurrentTask :
            newBaseWorker([pollerCount |-> pc, pollerRate |-> 0,
                           maxConcurrentTask |-> mct, userContextCancel |-> FALSE],
                          FALSE)
    /\ caller = "idle"
    /\ stopResult = "none"
    /\ userContextCancelCalls = 0
    /\ panics = 0
    /\ lastNoop = "none"
    /\ backoffs = <<>>
    /\ header = NoHeaderTest
    /\ calls = NoCalls
    /\ wrapper = NoWrapper

InvocationNext ==
    \/ Start_call
    \/ Stop_call
    \/ Stop_cancel
    \/ Stop_await
    \/ runPoller_start
    \/ runPoller_stop
    \/ runPoller_request
    \/ pollTask_Throttle
    \/ pollTask_PollTask
    \/ pollTask_dropTask
    \/ runTaskDispatcher_seed
    \/ runTaskDispatcher_stop
    \/ runTaskDispatcher_polledTask_recorded
    \/ runTaskDispatcher_Wait_recorded
    \/ runTaskDispatcher_localTask_recorded
    \/ processTask_return
    \/ processTask_panic

InvocationSpec == InvocationInit /\ [][InvocationNext]_vars

\* The worker without poll limiter and session gate when the ProcessTask()
\* call of one polled task never returns.
WedgedInit ==
    /\ \E pc \in 1..MaxPollerCount, mct \in 1..MaxConcurrentTask, ucc \in BOOLEAN :
            newBaseWorker([pollerCount |-> pc, pollerRate |-> 0,
                           maxConcurrentTask |-> mct, userContextCancel |-> ucc],
                          FALSE)
    /\ caller = "idle"
    /\ stopResult = "none"
    /\ userContextCancelCalls = 0
    /\ panics = 0
    /\ lastNoop = "none"
    /\ backoffs = <<>>
    /\ header = NoHeaderTest
    /\ calls = NoCalls
    /\ wrapper = NoWrapper

WedgedNext ==
    \/ Start_call
    \/ Stop_call
    \/ Stop_cancel
    \/ Stop_await
    \/ runPoller_start
    \/ runPoller_stop
    \/ runPoller_request
    \/ pollTask_Throttle
    \/ pollTask_PollTask
    \/ pollTask_dropTask
    \/ runTaskDispatcher_seed
    \/ runTaskDispatcher_stop
    \/ runTaskDispatcher_polledTask
    \/ runTaskDispatcher_Wait
    \/ runTaskDispatcher_localTask
    \/ processTask_butOne

WedgedSpec == WedgedInit /\ [][WedgedNext]_vars

\* Fair scheduling of every routine, with PollTask(), the task limiter and
\* every ProcessTask() call but the one returning eventually.
WedgedFairSpec ==
    /\ WedgedSpec
    /\ WF_vars(Stop_cancel) /\ WF_vars(Stop_await)
    /\ WF_vars(runPoller_start) /\ WF_vars(runPoller_request)
    /\ WF_vars(pollTask_Throttle) /\ WF_vars(pollTask_PollTask)
    /\ WF_vars(runTaskDispatcher_seed) /\ WF_vars(runTaskDispatcher_polledTask)
    /\ WF_vars(runTaskDispatcher_Wait)
    /\ WF_vars(processors["polled"] > 1 /\ processTask("polled", "ok"))

\* The worker on which Stop() is never called.
RunningNext ==
    \/ Start_call
    \/ runPoller_start
    \/ runPoller_request
    \/ waitForAvailableToken
    \/ pollTask_Throttle
    \/ pollTask_Wait
    \/ pollTask_PollTask
    \/ runTaskDispatcher_seed
    \/ runTaskDispatcher_polledTask
    \/ runTaskDispatcher_Wait
    \/ runTaskDispatcher_localTask
    \/ processTask_return
    \/ processTask_panic

RunningSpec == Init /\ [][RunningNext]_vars

\* Fair scheduling of the pollers, the dispatcher and the processors, with
\* every ProcessTask() returning and the task limiter granting its token
\* eventually; PollTask(), the session gate, the retrier and the poll limiter
\* need not return.
RunningFairSpec ==
    /\ RunningSpec
    /\ WF_vars(runPoller_start) /\ WF_vars(runPoller_request)
    /\ WF_vars(runTaskDispatcher_seed) /\ WF_vars(runTaskDispatcher_polledTask)
    /\ WF_vars(runTaskDispatcher_Wait)
    /\ \A kind \in TaskKinds : WF_vars(processTask(kind, "ok"))

\* The metrics wrapper called by Callers routines at once, next to a worker
\* that is not started.
WrapperInit ==
    /\ newBaseWorker([pollerCount |-> 1, pollerRate |-> 0,
                      maxConcurrentTask |-> 1, userContextCancel |-> FALSE],
                     FALSE)
    /\ caller = "idle"
    /\ stopResult = "none"
    /\ userContextCancelCalls = 0
    /\ panics = 0
    /\ lastNoop = "none"
    /\ backoffs = <<>>
    /\ header = NoHeaderTest
    /\ calls = NoCalls
    /\ wrapper = NoWrapper

WrapperNext ==
    \/ WrappedCall_step
    \/ getScope_Lock
    \/ getScope_lookup
    \/ getScope_SubScope
    \/ getScope_store
    \/ getOperationScope_Inc
    \/ service_returns
    \/ handleError
    \/ WrappedCall_return

WrapperSpec == WrapperInit /\ [][WrapperNext]_vars

\* The same behaviours with the history of the calls that were no-ops kept.
HistoryNext == Start_recorded \/ Stop_recorded \/ Routines

HistorySpec == Init /\ [][HistoryNext]_vars

\* The worker when every PollTask() returns a transient error and no local
\* task arrives, with the delay of the last Throttle() kept.
FailingPollNext ==
    \/ Start_call
    \/ Stop_call
    \/ Stop_cancel
    \/ Stop_await
    \/ runPoller_start
    \/ runPoller_stop
    \/ runPoller_request
    \/ waitForAvailableToken
    \/ pollTask_Throttle_recorded
    \/ pollTask_Wait
    \/ pollTask_PollTask_failing
    \/ runTaskDispatcher_seed
    \/ runTaskDispatcher_stop

FailingPollSpec == Init /\ [][FailingPollNext]_vars

\* Fair scheduling of the pollers and the dispatcher, with PollTask(), the
\* session gate and the poll limiter returning eventually.
FailingPollFairSpec ==
    /\ FailingPollSpec
    /\ WF_vars(runPoller_start) /\ WF_vars(runPoller_request)
    /\ WF_vars(waitForAvailableToken) /\ WF_vars(pollTask_Throttle_recorded)
    /\ WF_vars(pollTask_Wait) /\ WF_vars(pollTask_PollTask_failing)
    /\ WF_vars(runTaskDispatcher_seed)

\* The worker with 2 pollers and maxConcurrentTask = 3 when every PollTask()
\* returns a task, no ProcessTask() call returns, no local task arrives and
\* Stop() is not called.
LongTaskInit ==
    /\ \E rate \in {0, 1}, ucc \in BOOLEAN, bucket \in BOOLEAN :
            newBaseWorker([pollerCount |-> 2, pollerRate |-> rate,
                           maxConcurrentTask |-> 3, userContextCancel |-> ucc],
                          bucket)
    /\ caller = "idle"
    /\ stopResult = "none"
    /\ userContextCancelCalls = 0
    /\ panics = 0
    /\ lastNoop = "none"
    /\ backoffs = <<>>
    /\ header = NoHeaderTest
    /\ calls = NoCalls
    /\ wrapper = NoWrapper

LongTaskNext ==
    \/ Start_call
    \/ runPoller_start
    \/ runPoller_request
    \/ waitForAvailableToken
    \/ pollTask_Throttle
    \/ pollTask_Wait
    \/ pollTask_PollTask_task
    \/ runTaskDispatcher_seed
    \/ runTaskDispatcher_polledTask
    \/ runTaskDispatcher_Wait

LongTaskSpec == LongTaskInit /\ [][LongTaskNext]_vars

\* Fair scheduling of the pollers and the dispatcher, with PollTask(), the
\* session gate and the limiters returning eventually.
LongTaskFairSpec ==
    /\ LongTaskSpec
    /\ WF_vars(runPoller_start) /\ WF_vars(runPoller_request)
    /\ WF_vars(waitForAvailableToken) /\ WF_vars(pollTask_Throttle)
    /\ WF_vars(pollTask_Wait) /\ WF_vars(pollTask_PollTask_task)
    /\ WF_vars(runTaskDispatcher_seed) /\ WF_vars(runTaskDispatcher_polledTask)
    /\ WF_vars(runTaskDispatcher_Wait)

\* The worker with permits for every poller and two more, so that every poller
\* can be at the handoff while the dispatcher holds a task and a permit is
\* left; without local tasks and panics.
ThrottledInit ==
    /\ \E pc \in 1..MaxPollerCount, mct \in 1..(MaxPollerCount + 2),
          rate \in {0, 1}, ucc \in BOOLEAN, bucket \in BOOLEAN :
            newBaseWorker([pollerCount |-> pc, pollerRate |-> rate,
                           maxConcurrentTask |-> mct, userContextCancel |-> ucc],
                          bucket)
    /\ caller = "idle"
    /\ stopResult = "none"
    /\ userContextCancelCalls = 0
    /\ panics = 0
    /\ lastNoop = "none"
    /\ backoffs = <<>>
    /\ header = NoHeaderTest
    /\ calls = NoCalls
    /\ wrapper = NoWrapper

ThrottledNext ==
    \/ Start_call
    \/ Stop_call
    \/ Stop_cancel
    \/ Stop_await
    \/ runPoller_start
    \/ runPoller_stop
    \/ runPoller_request
    \/ waitForAvailableToken
    \/ pollTask_Throttle
    \/ pollTask_Wait
    \/ pollTask_PollTask
    \/ pollTask_dropTask
    \/ runTaskDispatcher_seed
    \/ runTaskDispatcher_stop
    \/ runTaskDispatcher_polledTask
    \/ runTaskDispatcher_Wait
    \/ processTask_return

ThrottledSpec == ThrottledInit /\ [][ThrottledNext]_vars

\* Fair scheduling of the pollers and of the seeding loop, with PollTask(), the
\* session gate and the poll limiter returning eventually; the task limiter
\* need not grant a token and ProcessTask() need not return.
ThrottledFairSpec ==
    /\ ThrottledSpec
    /\ WF_vars(runPoller_start) /\ WF_vars(runPoller_request)
    /\ WF_vars(waitForAvailableToken) /\ WF_vars(pollTask_Throttle)
    /\ WF_vars(pollTask_Wait) /\ WF_vars(pollTask_PollTask)
    /\ WF_vars(runTaskDispatcher_seed)

\* TestHeaderWriter, lines 34-99 of headers_test.go, for any initial header and
\* any vals: a writer over the header, then one Set per pair of vals in the
\* order the map iteration yields them.
HeaderInit ==
    /\ newBaseWorker([pollerCount |-> 1, pollerRate |-> 0,
                      maxConcurrentTask |-> 1, userContextCancel |-> FALSE], FALSE)
    /\ caller = "idle"
    /\ stopResult = "none"
    /\ userContextCancelCalls = 0
    /\ panics = 0
    /\ lastNoop = "none"
    /\ backoffs = <<>>
    /\ calls = NoCalls
    /\ wrapper = NoWrapper
    /\ \E initial \in HeaderMaps, vals \in HeaderMaps :
         header = [initial |-> initial, Fields |-> initial, vals |-> vals,
                   pending |-> DOMAIN vals]

TestHeaderWriter_Set ==
    /\ \E key \in header.pending :
         header' = [header EXCEPT !.Fields = Set(@, key, header.vals[key]),
                                  !.pending = @ \ {key}]
    /\ UNCHANGED <<options, sessionTokenBucket, isWorkerStarted, stopCh, stopWG,
                   limiterContext, retrier, pollerRequestCh, pollers, dispatcher,
                   processors, metrics, caller, stopResult,
                   userContextCancelCalls, panics, lastNoop, backoffs, calls, wrapper>>

HeaderNext == TestHeaderWriter_Set

HeaderSpec == HeaderInit /\ [][HeaderNext]_vars

\* The retrier alone: from any count of consecutive failures it may hold, the
\* calls pollTask makes on it for a sequence of poll results, each recorded
\* with the delay the next Throttle() then computes.
RetrierInit ==
    /\ options = [pollerCount |-> 1, pollerRate |-> 0,
                  maxConcurrentTask |-> 1, userContextCancel |-> FALSE]
    /\ sessionTokenBucket = FALSE
    /\ isWorkerStarted = FALSE
    /\ stopCh = "open"
    /\ stopWG = 0
    /\ limiterContext = "live"
    /\ retrier \in 0..MaxFailures
    /\ pollerRequestCh = 0
    /\ pollers = [pc \in PollerPcs |-> 0]
    /\ dispatcher = [pc |-> "none", i |-> 0]
    /\ processors = [k \in TaskKinds |-> 0]
    /\ metrics = [WorkerStartCounter |-> 0, PollerStartCounter |-> 0, WorkerPanicCounter |-> 0]
    /\ caller = "idle"
    /\ stopResult = "none"
    /\ userContextCancelCalls = 0
    /\ panics = 0
    /\ lastNoop = "none"
    /\ backoffs = <<>>
    /\ header = NoHeaderTest
    /\ calls = NoCalls
    /\ wrapper = NoWrapper

RetrierCall ==
    /\ Len(backoffs) < MaxCalls
    /\ \E res \in PollResults :
         /\ retrier' = RetrierUpdate(res, retrier)
         /\ backoffs' = Append(backoffs, [res |-> res, delay |-> Throttle(retrier')])
    /\ UNCHANGED <<options, sessionTokenBucket, isWorkerStarted, stopCh, stopWG,
                   limiterContext, pollerRequestCh, pollers, dispatcher,
                   processors, metrics, caller, stopResult,
                   userContextCancelCalls, panics, lastNoop, header, calls, wrapper>>

RetrierNext == RetrierCall

RetrierSpec == RetrierInit /\ [][RetrierNext]_vars

\* Only the routine inside Stop() is assumed to keep running: the runtime
\* schedules it and the timer of the stop timeout fires.
StopFairSpec == Spec /\ WF_vars(Stop_cancel) /\ WF_vars(Stop_await)

\* Fair scheduling of every routine, with PollTask() and ProcessTask()
\* returning eventually and every wait that the stop signal or the cancelled
\* limiter context ends ending; Throttle() returns when it has no delay to
\* sleep, but no token of the session gate or of a limiter need be granted
\* and no timer of the retrier need fire.
CancelFairSpec ==
    /\ PolledSpec
    /\ WF_vars(Stop_cancel) /\ WF_vars(Stop_await)
    /\ WF_vars(runPoller_start) /\ WF_vars(runPoller_stop)
    /\ WF_vars(Throttle(retrier) = 0 /\ pollTask_Throttle)
    /\ WF_vars(pollTask_PollTask) /\ WF_vars(pollTask_dropTask)
    /\ WF_vars(limiterContext = "cancelled" /\ pollTask_Wait)
    /\ WF_vars(runTaskDispatcher_seed) /\ WF_vars(runTaskDispatcher_stop)
    /\ WF_vars(limiterContext = "cancelled" /\ runTaskDispatcher_Wait)
    /\ WF_vars(processTask_return)

\* Fair scheduling of every routine, with PollTask() and ProcessTask()
\* returning eventually, the timer of the retrier firing and the waits on the
\* limiters ending once their context is cancelled; no token of the session
\* gate or of a limiter need be granted. The select statements of runPoller and
\* runTaskDispatcher choose at random among their ready cases, so the stop case
\* that is ready again and again is chosen eventually.
ShutdownFairSpec ==
    /\ Spec
    /\ WF_vars(Stop_cancel) /\ WF_vars(Stop_await)
    /\ WF_vars(runPoller_start) /\ SF_vars(runPoller_stop)
    /\ WF_vars(pollTask_Throttle)
    /\ WF_vars(limiterContext = "cancelled" /\ pollTask_Wait)
    /\ WF_vars(pollTask_PollTask) /\ WF_vars(pollTask_dropTask)
    /\ WF_vars(runTaskDispatcher_seed) /\ SF_vars(runTaskDispatcher_stop)
    /\ WF_vars(limiterContext = "cancelled" /\ runTaskDispatcher_Wait)
    /\ \A kind \in TaskKinds : WF_vars(processTask(kind, "ok"))

\* Fair scheduling of every routine, with PollTask(), ProcessTask(), the
\* session gate and the limiters all returning eventually.
FairSpec ==
    /\ Spec
    /\ WF_vars(Stop_cancel) /\ WF_vars(Stop_await)
    /\ WF_vars(runPoller_start) /\ WF_vars(runPoller_request)
    /\ WF_vars(waitForAvailableToken) /\ WF_vars(pollTask_Throttle)
    /\ WF_vars(pollTask_Wait) /\ WF_vars(pollTask_PollTask)
    /\ WF_vars(runTaskDispatcher_seed) /\ WF_vars(runTaskDispatcher_polledTask)
    /\ WF_vars(runTaskDispatcher_Wait)
    /\ \A kind \in TaskKinds : WF_vars(processTask(kind, "ok"))

(* ----------------------------- observers ------------------------------- *)
\* Permits outside the permit channel: with a poller, with the polled task the
\* dispatcher holds in the task limiter, with a processor of a polled task.
HeldByPollers == SumOver(pollers, PollerHolding)
HeldByDispatcher == IF dispatcher.pc = "Wait" THEN 1 ELSE 0
HeldByProcessors == processors["polled"]
HeldPermits == HeldByPollers + HeldByDispatcher + HeldByProcessors

Seeded == dispatcher.pc \in {"select", "Wait", "done"}

LivePollers == SumOver(pollers, PollerPcs \ {"done"})
LaunchedPollers == SumOver(pollers, PollerPcs)
DispatcherLive == dispatcher.pc \in {"seed", "select", "Wait"}
LiveProcessors == SumOver(processors, TaskKinds)
LiveRoutines == LivePollers + (IF DispatcherLive THEN 1 ELSE 0) + LiveProcessors

\* A step in which a PollTask() invocation begins.
PollTaskBegins == pollers'["PollTask"] > pollers["PollTask"]

\* A step in which a task returned by PollTask() is discarded unprocessed: by a
\* poller at the handoff, or by the dispatcher returning with the task in hand.
PollerDropsTask ==
    /\ pollers'["send"] < pollers["send"]
    /\ dispatcher' = dispatcher
    /\ processors' = processors
DispatcherDropsTask ==
    /\ dispatcher'.pc = "done"
    /\ \/ dispatcher.pc = "Wait"
       \/ dispatcher.pc = "select" /\ pollers'["send"] < pollers["send"]
TaskDropped == PollerDropsTask \/ DispatcherDropsTask

(* ------------------------------- claims -------------------------------- *)
\* C1: at most maxConcurrentTask permits are outside the permit channel, in
\* every state and for every pollerCount.
C1_ConcurrencyBound == HeldPermits <= options.maxConcurrentTask

C1_Witness ==
    /\ options.pollerCount > options.maxConcurrentTask
    /\ HeldPermits = options.maxConcurrentTask
    /\ HeldByProcessors >= 1
    /\ pollerRequestCh = 0

\* C2 as stated: once seeded, the permits in the channel and the permits held
\* sum to exactly maxConcurrentTask, also while stopping and after Stop.
C2_Original == Seeded => pollerRequestCh + HeldPermits = options.maxConcurrentTask

\* C2 as amended: the sum is exactly maxConcurrentTask once seeded and while the
\* stop signal is not set; it never exceeds maxConcurrentTask (nor what has
\* been seeded) in any state.
C2_PermitConservation ==
    /\ (Seeded /\ ~isStop) => pollerRequestCh + HeldPermits = options.maxConcurrentTask
    /\ pollerRequestCh + HeldPermits <= dispatcher.i
    /\ dispatcher.i <= options.maxConcurrentTask

C2_Witness ==
    /\ Seeded /\ ~isStop
    /\ options.pollerCount < options.maxConcurrentTask
    /\ HeldByPollers >= 1
    /\ HeldByProcessors >= 1

\* C3: once the stop signal is set, no PollTask() invocation begins.
C3_NoPollAfterStop == [][isStop => ~PollTaskBegins]_vars

\* C4: the WaitGroup counter equals the number of live routines and is never
\* negative, it is at least one while the dispatcher can spawn, and when Stop
\* returned without the timeout every routine has exited.
C4_GracefulDrain ==
    /\ stopWG = LiveRoutines
    /\ stopWG >= 0
    /\ DispatcherLive => stopWG >= 1
    /\ stopResult = "drained" => (LiveRoutines = 0 /\ LiveProcessors = 0)

C4_Witness ==
    /\ stopResult = "drained"
    /\ caller = "idle"
    /\ options.pollerCount = 2
    /\ metrics.WorkerPanicCounter >= 1

\* C5: a Stop() call that has set the stop signal eventually returns, whatever
\* the pollers, the dispatcher and the processors do.
C5_BoundedStop == (caller \in {"Stop_cancel", "Stop_await"}) ~> (caller = "idle")

C5_Witness ==
    /\ stopResult = "timeout"
    /\ caller = "idle"
    /\ LiveProcessors >= 1
    /\ pollers["PollTask"] >= 1

\* C6 as stated: no task returned by PollTask() is ever discarded unprocessed.
C6_Original == [][~TaskDropped]_vars

\* C6 as amended: a task returned by PollTask() is discarded unprocessed only
\* when the stop signal is set.
C6_DropOnlyOnStop == [][TaskDropped => isStop]_vars

C6_Witness ==
    /\ Seeded
    /\ isStop
    /\ pollerRequestCh + HeldPermits < options.maxConcurrentTask

\* C7: while Stop() has not been called no poller and not the dispatcher has
\* terminated; a recovered panic of a polled task returns its permit; and once
\* a panic has happened a PollTask() invocation is always eventually in
\* progress again (or the engine is stopped).
C7_PanicIsolation ==
    /\ [](~isStop => (pollers["done"] = 0 /\ dispatcher.pc /= "done"))
    /\ [][(panics' = panics + 1 /\ processors'["polled"] < processors["polled"])
            => pollerRequestCh' = pollerRequestCh + 1]_vars
    /\ (panics >= 1) ~> (isStop \/ pollers["PollTask"] >= 1)

C7_Witness ==
    /\ ~isStop
    /\ options.maxConcurrentTask = 1
    /\ metrics.WorkerPanicCounter = 1
    /\ pollers["PollTask"] = 1

\* C8: the panic counter counts exactly the ProcessTask() calls that panicked.
C8_PanicAccounting == metrics.WorkerPanicCounter = panics

C8_Witness ==
    /\ metrics.WorkerPanicCounter = 1
    /\ panics = 1
    /\ LiveProcessors >= 1

\* C9: after one or more Start() calls exactly pollerCount pollers and one
\* dispatcher were launched and the worker-start counter is 1; a Start() call
\* on a started worker changes nothing.
C9_IdempotentStart ==
    /\ [](isWorkerStarted =>
            /\ metrics.WorkerStartCounter = 1
            /\ LaunchedPollers = options.pollerCount
            /\ dispatcher.pc /= "none"
            /\ stopWG = LiveRoutines)
    /\ [][(lastNoop' = "Start" /\ lastNoop /= "Start") =>
            UNCHANGED <<options, sessionTokenBucket, isWorkerStarted, stopCh, stopWG,
                        limiterContext, retrier, pollerRequestCh, pollers, dispatcher,
                        processors, metrics, caller, stopResult,
                        userContextCancelCalls, panics>>]_vars

C9_Witness ==
    /\ lastNoop = "Start"
    /\ ~isStop
    /\ pollers["PollTask"] >= 1

\* C10: a Stop() call after a Stop() that has returned returns normally and
\* changes nothing.
C10_StopTwiceNoop ==
    [][(caller = "idle" /\ stopResult /= "none") =>
         /\ caller' = "idle"
         /\ UNCHANGED <<stopCh, limiterContext, userContextCancelCalls>>]_vars

\* The state newBaseWorker() leaves, whatever the options.
Created ==
    /\ ~isWorkerStarted
    /\ stopCh = "open"
    /\ limiterContext = "live"
    /\ userContextCancelCalls = 0
    /\ caller = "idle"
    /\ stopResult = "none"
    /\ stopWG = 0
    /\ pollerRequestCh = 0
    /\ LaunchedPollers = 0
    /\ dispatcher.pc = "none"
    /\ LiveProcessors = 0
    /\ metrics.WorkerStartCounter = 0

\* C11: a Stop() on a worker never started changes nothing (the stop signal is
\* not set, the limiter context is live, the user context cancel was not
\* invoked, the caller has returned), and after a later Start() the pollers and
\* the dispatcher are launched with the stop signal not set.
C11_StopBeforeStartNoop ==
    /\ [](~isWorkerStarted => Created)
    /\ [][(lastNoop' = "Stop" /\ lastNoop /= "Stop") =>
            UNCHANGED <<options, sessionTokenBucket, isWorkerStarted, stopCh, stopWG,
                        limiterContext, retrier, pollerRequestCh, pollers, dispatcher,
                        processors, metrics, caller, stopResult,
                        userContextCancelCalls, panics>>]_vars
    /\ []((lastNoop = "Stop" /\ isWorkerStarted) =>
            /\ LaunchedPollers = options.pollerCount
            /\ dispatcher.pc /= "none"
            /\ ~isStop /\ limiterContext = "live")

C11_Witness ==
    /\ lastNoop = "Stop"
    /\ isWorkerStarted
    /\ pollers["PollTask"] >= 1
    /\ LiveProcessors >= 1

\* Created = 0, Started = 1, Stopping = 2, Stopped = 3.
Phase ==
    IF ~isWorkerStarted THEN 0
    ELSE IF ~isStop THEN 1
    ELSE IF stopResult = "none" THEN 2 ELSE 3

\* C12: the lifecycle phase never goes back, the stop signal once set stays
\* set, and once it is set no step (a Start() call included) launches a poller
\* (a launched poller is at "start") or the dispatcher.
C12_OneWayLifecycle ==
    /\ [][Phase' >= Phase]_vars
    /\ [][isStop => isStop']_vars
    /\ [][isStop =>
            /\ pollers'["start"] <= pollers["start"]
            /\ dispatcher'.pc \in {dispatcher.pc, "select", "Wait", "done"}
            /\ dispatcher'.pc = "seed" => dispatcher'.i >= dispatcher.i
            /\ metrics'.WorkerStartCounter = metrics.WorkerStartCounter]_vars

C12_Witness ==
    /\ lastNoop = "Start"
    /\ Phase = 3
    /\ caller = "idle"

\* C13: the ProcessTask() calls in progress, of polled and of local tasks
\* together, never exceed maxConcurrentTask.
C13_LocalTasksBounded == LiveProcessors <= options.maxConcurrentTask

\* C14: while the stop signal is not set, all pollerCount pollers and the
\* dispatcher of a started worker are running, whatever PollTask() and
\* ProcessTask() returned so far.
C14_NoFatalError ==
    (isWorkerStarted /\ ~isStop) =>
        (LivePollers = options.pollerCount /\ DispatcherLive)

C14_Witness ==
    /\ ~isStop
    /\ retrier = MaxBackoffLevel
    /\ metrics.WorkerPanicCounter >= 1
    /\ options.pollerCount = MaxPollerCount
    /\ pollers["PollTask"] >= 1
    /\ LiveProcessors >= 1

\* C15: over consecutive transient failures the computed delays never
\* decrease, each lies between the initial interval (20 ms) and the maximum
\* interval (10 s), and none is the expired result.
C15_BackoffMonotone ==
    \A i \in 1..Len(backoffs) :
        backoffs[i].res = "transient" =>
            /\ backoffs[i].delay /= done
            /\ backoffs[i].delay >= retryPollOperationInitialInterval
            /\ backoffs[i].delay <= retryPollOperationMaxInterval
            /\ (i > 1 /\ backoffs[i-1].res = "transient") =>
                    backoffs[i-1].delay <= backoffs[i].delay

C15_Witness ==
    /\ Len(backoffs) = 3
    /\ \A i \in 1..3 : backoffs[i].res = "transient"
    /\ backoffs[1].delay < backoffs[2].delay
    /\ backoffs[2].delay < retryPollOperationMaxInterval
    /\ backoffs[3].delay = retryPollOperationMaxInterval

\* C17: after a poll result that makes pollTask call Succeeded() (anything but
\* a transient error) no delay is left, and the delay computed for the next
\* failure is the initial interval, whatever the failures before.
C17_BackoffReset ==
    \A i \in 1..Len(backoffs) :
        /\ backoffs[i].res /= "transient" => backoffs[i].delay = 0
        /\ (i > 1 /\ backoffs[i].res = "transient" /\ backoffs[i-1].res /= "transient")
              => backoffs[i].delay = retryPollOperationInitialInterval

C17_Witness ==
    /\ Len(backoffs) = 3
    /\ backoffs[1].res = "transient"
    /\ backoffs[1].delay = retryPollOperationMaxInterval
    /\ backoffs[2].res = "nontransient"
    /\ backoffs[3].res = "transient"
    /\ backoffs[3].delay = retryPollOperationInitialInterval

\* A step in which a Throttle() call returns after an earlier one.
NextThrottle ==
    /\ pollers'["Throttle"] < pollers["Throttle"]
    /\ backoffs /= <<>>

\* C16 as stated: with every poll failing, each Throttle() delay after the
\* first failure is strictly larger than the one before it until the maximum
\* interval is reached, and never smaller.
C16_Original ==
    [][NextThrottle =>
         /\ backoffs'[1].delay >= backoffs[1].delay
         /\ (backoffs[1].delay > 0 /\ backoffs[1].delay < retryPollOperationMaxInterval)
               => backoffs'[1].delay > backoffs[1].delay]_vars

\* C16 as amended: with every poll failing, the delay of a Throttle() call is
\* never smaller than that of the call before it; with maxConcurrentTask = 1
\* and the stop signal not set it is strictly larger until the maximum
\* interval is reached.
C16_SharedBackoff ==
    [][NextThrottle =>
         /\ backoffs'[1].delay >= backoffs[1].delay
         /\ (/\ options.maxConcurrentTask = 1
             /\ ~isStop
             /\ backoffs[1].delay < retryPollOperationMaxInterval)
               => backoffs'[1].delay > backoffs[1].delay]_vars

C16_Witness ==
    /\ options.maxConcurrentTask = 1
    /\ ~isStop
    /\ backoffs /= <<>>
    /\ backoffs[1].delay = retryPollOperationMaxInterval
    /\ pollers["PollTask"] = 1

\* C18: with every poll failing, a started worker whose stop signal is never
\* set begins PollTask() invocations again and again, forever.
C18_BackoffNeverExpires ==
    \/ [](~isWorkerStarted)
    \/ <>isStop
    \/ []<><<PollTaskBegins>>_vars

C18_Witness ==
    /\ ~isStop
    /\ retrier = MaxFailures
    /\ pollers["PollTask"] >= 1

\* C19: with 2 pollers, maxConcurrentTask = 3, every poll returning a task and
\* ProcessTask() not returning, never more than 3 ProcessTask() calls run, and
\* a started worker ends up with exactly 3 running for good.
C19_ThreeConcurrentTasks ==
    /\ [](LiveProcessors <= 3)
    /\ ([](~isWorkerStarted) \/ <>[](LiveProcessors = 3))

C19_Witness ==
    /\ options.pollerCount = 2
    /\ options.maxConcurrentTask = 3
    /\ LiveProcessors = 3
    /\ LivePollers = 2
    /\ pollerRequestCh = 0

\* Pollers between the receipt of a permit and the return of PollTask().
PollingPollers ==
    pollers["session"] + pollers["Throttle"] + pollers["Wait"] + pollers["PollTask"]

DispatcherThrottled == dispatcher.pc = "Wait" /\ ~isStop

\* C20 as stated: while the dispatcher waits for a task-rate token and the stop
\* signal is not set, a permit in the permit channel leads to a poller on its
\* way to PollTask() without the token being granted.
C20_Original ==
    (DispatcherThrottled /\ pollerRequestCh >= 1)
        ~> (~DispatcherThrottled \/ PollingPollers >= 1)

\* C20 as amended: the same for as long as some poller is not blocked at the
\* handoff of a task it polled.
C20_PollUntilHandoff ==
    (DispatcherThrottled /\ pollerRequestCh >= 1 /\ pollers["send"] < options.pollerCount)
        ~> (~DispatcherThrottled \/ PollingPollers >= 1)

C20_Witness ==
    /\ DispatcherThrottled
    /\ pollers["PollTask"] >= 1
    /\ pollers["send"] >= 1
    /\ pollerRequestCh >= 1

\* The header the test expects: the initial fields overridden by vals.
ExpectedHeader ==
    [k \in DOMAIN header.initial \cup DOMAIN header.vals |->
        IF k \in DOMAIN header.vals THEN header.vals[k] ELSE header.initial[k]]

\* C21: when Set has been called for every pair of vals, the header holds the
\* initial fields overridden by vals; with empty vals it is the initial header.
C21_HeaderWriter ==
    header.pending = {} =>
        /\ header.Fields = ExpectedHeader
        /\ header.vals = EmptyHeader => header.Fields = header.initial

C21_Witness ==
    /\ header.pending = {}
    /\ header.initial = [k \in {"key1"} |-> "unexpected"]
    /\ header.vals = [k \in {"key1", "key2"} |-> IF k = "key1" THEN "val1" ELSE "val2"]
    /\ header.Fields = header.vals

(* ------------------------------- C22 ----------------------------------- *)
\* C22: the step in which ProcessTask() of a polled task ends (return, error or
\* recovered panic) puts exactly one permit into the permit channel; launching
\* the processor puts none; and every other step that adds a permit is the
\* seeding loop or a poller giving back the permit it holds, so no permit of a
\* task still in ProcessTask() is in the channel.
C22_OnePermitPerTask ==
    [][/\ processors'["polled"] < processors["polled"] =>
            /\ processors'["polled"] = processors["polled"] - 1
            /\ pollerRequestCh' = pollerRequestCh + 1
       /\ processors'["polled"] > processors["polled"] =>
            pollerRequestCh' = pollerRequestCh
       /\ (pollerRequestCh' > pollerRequestCh
            /\ processors'["polled"] = processors["polled"]) =>
            \/ dispatcher'.i = dispatcher.i + 1
            \/ pollers'["select"] = pollers["select"] + 1]_vars

\* One polled task panicked and another runs, with the first one's permit back
\* in circulation.
C22_Witness ==
    /\ panics = 1
    /\ metrics.WorkerPanicCounter = 1
    /\ processors["polled"] = 1
    /\ pollerRequestCh = options.maxConcurrentTask - 1
    /\ ~isStop

(* ------------------------------- C23 ----------------------------------- *)
\* A routine is at a send on pollerRequestCh or can come to one without
\* receiving anything: the seeding loop (line 250), a poller in pollTask
\* holding its permit (line 294), a processor of a polled task (line 317).
SeedingSends == dispatcher.pc = "seed" /\ dispatcher.i < SeedTarget
PollerSends == pollers["Throttle"] + pollers["Wait"] + pollers["PollTask"] > 0
ProcessorSends == processors["polled"] > 0

\* C23: whenever a routine is to put a permit into the permit channel the
\* channel has room, so the send completes at once, also when the stop signal
\* is set and the pollers and the dispatcher have exited.
C23_PermitReturnNeverBlocks ==
    (SeedingSends \/ PollerSends \/ ProcessorSends) => CanSendPermit

\* After Stop(): every poller and the dispatcher have exited, a permit is in
\* the channel that nobody receives from, and a processor has still to send.
C23_Witness ==
    /\ isStop
    /\ LivePollers = 0
    /\ dispatcher.pc = "done"
    /\ ProcessorSends
    /\ pollerRequestCh >= 1

(* ------------------------------- C24 ----------------------------------- *)
\* Tasks PollTask() returned that no processor routine has been launched for:
\* with a poller at the handoff of lines 289-292, or with the dispatcher in
\* taskLimiter.Wait (line 261).
TasksInHandoff == pollers["send"] + HeldByDispatcher

\* C24 as stated: at most pollerCount tasks have been returned by PollTask()
\* without ProcessTask() begun, for every maxConcurrentTask and also while the
\* dispatcher is blocked on the task limiter.
C24_Original == TasksInHandoff <= options.pollerCount

\* C24 as amended: at most pollerCount tasks wait with pollers at the handoff,
\* and the dispatcher holds at most one more while it waits for the task
\* limiter; the total never exceeds maxConcurrentTask.
C24_HandoffBound ==
    /\ pollers["send"] <= options.pollerCount
    /\ TasksInHandoff <= options.pollerCount + 1
    /\ TasksInHandoff <= options.maxConcurrentTask
    /\ dispatcher.pc # "Wait" => TasksInHandoff <= options.pollerCount

\* Every poller is blocked at the handoff while the dispatcher waits for the
\* task limiter with one more task, and permits are left in the channel.
C24_Witness ==
    /\ ~isStop
    /\ dispatcher.pc = "Wait"
    /\ pollers["send"] = options.pollerCount
    /\ options.maxConcurrentTask > options.pollerCount + 1
    /\ pollerRequestCh >= 1

(* ------------------------------- C25 ----------------------------------- *)
\* A step in which a PollTask() invocation returns.
PollTaskEnds == pollers'["PollTask"] < pollers["PollTask"]

\* A step in which a Throttle() call returns.
ThrottleEnds == pollers'["Throttle"] < pollers["Throttle"]

\* C25 as stated: with every poll failing with a transient error, the step in
\* which PollTask() returns puts no permit into the permit channel.
C25_Original == [][PollTaskEnds => pollerRequestCh' = pollerRequestCh]_vars

\* C25 as amended: with every poll failing with a transient error, the step in
\* which PollTask() returns counts the failure and puts the permit back, the
\* poller going back to its select; a PollTask() invocation begins only out of
\* Throttle() or the poll limiter; and a Throttle() call made once a failure
\* is counted sleeps at least the initial interval.
C25_FailureRearms ==
    /\ [][PollTaskEnds =>
            /\ retrier' = Saturate(Failed(retrier), MaxFailures)
            /\ pollerRequestCh' = pollerRequestCh + 1
            /\ pollers'["select"] = pollers["select"] + 1]_vars
    /\ [][PollTaskBegins =>
            \/ ThrottleEnds
            \/ pollers'["Wait"] < pollers["Wait"]]_vars
    /\ [][(ThrottleEnds /\ retrier > 0) =>
            backoffs'[1].delay >= retryPollOperationInitialInterval]_vars

\* A failure is counted and its permit is back in the channel, free to be
\* taken, while no Throttle() call has slept yet.
C25_Witness ==
    /\ ~isStop
    /\ retrier = 1
    /\ pollerRequestCh = options.maxConcurrentTask
    /\ backoffs /= <<>>
    /\ backoffs[1].delay = 0

(* ------------------------------- C26 ----------------------------------- *)
\* The result of the PollTask() call that returns in this step.
PollResult == backoffs'[1].res

\* C26: the step in which PollTask() returns no task, with no error or with a
\* non-transient one, puts the poller's permit into the permit channel and
\* takes the poller back to its select, gives the dispatcher nothing and
\* starts no processor: the permit only moves from the poller to the channel.
C26_EmptyPollRearms ==
    [][(PollTaskEnds /\ PollResult \in {"none", "nontransient"}) =>
            /\ pollerRequestCh' = pollerRequestCh + 1
            /\ pollers' = Move(pollers, "PollTask", "select")
            /\ dispatcher' = dispatcher
            /\ processors' = processors]_vars

\* The last poll returned a non-transient error, every permit is in the
\* channel and every poller at its select.
C26_Witness ==
    /\ ~isStop
    /\ backoffs /= <<>>
    /\ backoffs[1].res = "nontransient"
    /\ pollerRequestCh = options.maxConcurrentTask
    /\ pollers["select"] = options.pollerCount
    /\ options.maxConcurrentTask > 1

(* ------------------------------- C27 ----------------------------------- *)
\* A step in which ProcessTask() ends.
ProcessTaskEnds == \E kind \in TaskKinds : processors'[kind] < processors[kind]

\* C27: the step in which PollTask() returns makes the one retrier update of
\* that poll, Failed() when the result is a transient error and Succeeded()
\* for a task, no task or a non-transient error; no other step changes the
\* retrier, and none in which ProcessTask() ends, whatever its outcome.
C27_RetrierUpdatePerPoll ==
    /\ [][PollTaskEnds =>
            retrier' = IF PollResult = "transient"
                       THEN Saturate(Failed(retrier), MaxBackoffLevel)
                       ELSE Succeeded(retrier)]_vars
    /\ [][retrier' /= retrier => PollTaskEnds]_vars
    /\ [][ProcessTaskEnds => retrier' = retrier]_vars

\* Two failures are counted, the last poll failed, and a ProcessTask() has
\* panicked at some point, without a trace in the retrier.
C27_Witness ==
    /\ backoffs /= <<>>
    /\ backoffs[1].res = "transient"
    /\ retrier = 2
    /\ panics = 1

(* ------------------------------- C28 ----------------------------------- *)
\* Routines inside one of the waits: pollers in the session gate (line 239),
\* in the sleep of Throttle() (line 275), in pollLimiter.Wait (line 276) or at
\* the handoff (lines 289-292), the dispatcher in taskLimiter.Wait (line 261).
BlockedPollers ==
    pollers["session"] + pollers["Throttle"] + pollers["Wait"] + pollers["send"]
BlockedDispatcher == dispatcher.pc = "Wait"

\* C28: once the stop signal is set, a state follows in which no poller is in
\* the session gate, the retrier sleep, the poll limiter or the handoff and the
\* dispatcher is not in the task limiter, without any token being granted or
\* timer firing.
C28_WaitsCancellable == isStop ~> (BlockedPollers = 0 /\ ~BlockedDispatcher)

(* ------------------------------- C29 ----------------------------------- *)
\* A step in which a poller leaves the blocked pollLimiter.Wait of line 276.
PollLimiterWaitEnds == pollers'["Wait"] < pollers["Wait"]

\* Stop() was called while the poller waited for a poll-rate token, and the
\* poller has not left that wait since.
StoppedWhileWaiting == backoffs /= <<>> /\ backoffs[1].res = "Wait"

\* C29: a poller that Stop() found waiting for a poll-rate token leaves the
\* wait for its select with its permit put back into the permit channel,
\* without a PollTask() call and without a retrier update.
C29_PollRateWaitCancelled ==
    [][(StoppedWhileWaiting /\ PollLimiterWaitEnds) =>
            /\ pollers' = Move(pollers, "Wait", "select")
            /\ pollerRequestCh' = pollerRequestCh + 1
            /\ retrier' = retrier]_vars

(* ------------------------------- C30 ----------------------------------- *)
\* Stop() was called while the poller was blocked at the handoff of a task,
\* and the poller has dropped the task.
DroppedOnStop == backoffs /= <<>> /\ backoffs[1].res = "drop"

\* C30: a poller that Stop() found blocked at the handoff of a task and that
\* has dropped the task only exits: it takes no permit and begins no
\* PollTask() call any more.
C30_DropAndExit ==
    [][(DroppedOnStop /\ pollers' /= pollers) =>
            pollers' = Move(pollers, "select", "done")]_vars

(* ------------------------------- C31 ----------------------------------- *)
\* A step in which the dispatcher receives a polled task.
DispatcherReceives ==
    /\ dispatcher.pc = "select"
    /\ pollers'["send"] < pollers["send"]
    /\ dispatcher' /= dispatcher \/ processors' /= processors

\* C31: Stop() is past line 344 when it cancels the limiter context and past
\* line 345 when it waits, so the limiter context is cancelled only with the
\* stop signal set; and a dispatcher that receives a polled task with the
\* limiter context cancelled, whose Wait fails at once, exits without
\* spawning a processor.
C31_StopOrdering ==
    /\ [](caller = "Stop_cancel" => isStop /\ limiterContext = "live")
    /\ [](caller = "Stop_await" => isStop /\ limiterContext = "cancelled")
    /\ [](limiterContext = "cancelled" => isStop)
    /\ [][(limiterContext = "cancelled" /\ DispatcherReceives) =>
            /\ dispatcher'.pc = "done"
            /\ processors' = processors
            /\ stopWG' = stopWG - 1]_vars

\* The limiter context is cancelled while the dispatcher waits for a task-rate
\* token with a task in hand and Stop() waits for the routines.
C31_Witness ==
    /\ caller = "Stop_await"
    /\ limiterContext = "cancelled"
    /\ dispatcher.pc = "Wait"

(* ------------------------------- C32 ----------------------------------- *)
\* A step in which a processor of a local task is launched, or ends.
LocalTaskSpawned == processors'["local"] > processors["local"]
LocalTaskEnds == processors'["local"] < processors["local"]

\* C32: the dispatcher launches the processor of a local task in the step in
\* which it receives the task, staying at its select, with the permit channel
\* and the pollers untouched; it enters the task limiter only with a task from
\* a poller; and the step in which ProcessTask() of a local task ends, however
\* it ends, leaves the permit channel as it is.
C32_LocalTasksBypass ==
    /\ [][LocalTaskSpawned =>
            /\ dispatcher.pc = "select" /\ dispatcher'.pc = "select"
            /\ pollerRequestCh' = pollerRequestCh
            /\ pollers' = pollers
            /\ processors'["polled"] = processors["polled"]]_vars
    /\ [][dispatcher'.pc = "Wait" =>
            dispatcher.pc = "Wait" \/ pollers'["send"] < pollers["send"]]_vars
    /\ [][LocalTaskEnds =>
            /\ pollerRequestCh' = pollerRequestCh
            /\ processors'["polled"] = processors["polled"]]_vars

\* A local task is in ProcessTask() while every permit is in the permit
\* channel and the limiter context is cancelled.
C32_Witness ==
    /\ Seeded
    /\ processors["local"] = 1
    /\ pollerRequestCh = options.maxConcurrentTask
    /\ limiterContext = "cancelled"
    /\ dispatcher.pc = "select"

(* ------------------------------- C33 ----------------------------------- *)
\* C33: ProcessTask() has been invoked at most once per envelope the
\* dispatcher received, exactly once per envelope while the dispatcher is in
\* its loop and not in the task limiter; and the step in which a ProcessTask()
\* ends (return, error or panic) ends its routine without a new invocation.
C33_AtMostOnce ==
    /\ [](calls.ProcessTask <= calls.received)
    /\ [](dispatcher.pc \in {"seed", "select"} => calls.ProcessTask = calls.received)
    /\ [][ProcessTaskEnds =>
            /\ calls' = calls
            /\ processors'["polled"] + processors'["local"]
                 = processors["polled"] + processors["local"] - 1]_vars

\* MaxTasks envelopes were received and processed, one ProcessTask() panicked,
\* and no processor is left.
C33_Witness ==
    /\ ~isStop
    /\ calls.received = MaxTasks
    /\ calls.ProcessTask = MaxTasks
    /\ panics = 1
    /\ LiveProcessors = 0

(* ------------------------------- C34 ----------------------------------- *)
\* The ProcessTask() call that never returns has begun.
Wedged == processors["polled"] >= 1

\* C34: while the ProcessTask() call that never returns runs, its permit is
\* outside the permit channel and its slot of the WaitGroup is taken; with
\* maxConcurrentTask >= 2 and no Stop(), PollTask() invocations keep beginning,
\* and a task a poller has polled gets its processor next to the wedged one;
\* and a Stop() that returns does so through the timeout.
C34_WedgedTask ==
    /\ [](Wedged => /\ stopWG >= 1
                    /\ HeldByProcessors >= 1
                    /\ pollerRequestCh <= options.maxConcurrentTask - 1)
    /\ [][Wedged => Wedged']_vars
    /\ (options.maxConcurrentTask >= 2 =>
            \/ [](~isWorkerStarted)
            \/ <>isStop
            \/ []<><<PollTaskBegins>>_vars)
    /\ ((Wedged /\ pollers["send"] >= 1) ~> (isStop \/ processors["polled"] >= 2))
    /\ [][(Wedged /\ caller = "Stop_await" /\ caller' = "idle") =>
            stopResult' = "timeout"]_vars

\* Stop() has returned through the timeout: every poller and the dispatcher
\* have exited, the wedged ProcessTask() still holds its WaitGroup slot.
C34_Witness ==
    /\ Wedged
    /\ caller = "idle"
    /\ stopResult = "timeout"
    /\ LivePollers = 0
    /\ dispatcher.pc = "done"
    /\ stopWG = 1
    /\ options.maxConcurrentTask >= 2

(* ------------------------------- C35 ----------------------------------- *)
\* A step in which the dispatcher receives the task of a poller at the handoff.
TaskHandedOver == pollers'["send"] < pollers["send"] /\ dispatcher.pc = "select"

\* A step in which ProcessTask() begins for a polled task.
PolledTaskLaunched == processors'["polled"] > processors["polled"]

\* A step of a poller, of the dispatcher with a permit or a polled task, or
\* of a processor.
RoutineStep ==
    \/ runPoller_request
    \/ waitForAvailableToken
    \/ pollTask_Throttle
    \/ pollTask_Wait
    \/ pollTask_PollTask
    \/ runTaskDispatcher_seed
    \/ runTaskDispatcher_polledTask
    \/ runTaskDispatcher_Wait
    \/ processTask_return

\* A routine blocked on the permit channel, the intake channel or the task
\* limiter.
RoutineBlocked ==
    \/ pollers["select"] >= 1 /\ pollerRequestCh = 0
    \/ pollers["send"] >= 1
    \/ dispatcher.pc = "Wait"

\* C35: without Stop(), when every poller waits at the handoff one of them is
\* served (with one poller: its task is always handed over), and there is no
\* point after which pollers wait and no task is received any more; the step
\* that serves a poller is the dispatcher receiving its task, which it passes
\* to ProcessTask() at once or holds in the task limiter, and the task held
\* there is passed to ProcessTask(); whenever a routine is blocked on a channel
\* or on the task limiter some routine can step.
C35_DispatchLiveness ==
    /\ (pollers["send"] = options.pollerCount) ~>
            (pollers["send"] < options.pollerCount)
    /\ \A k \in 1..MaxPollerCount :
            (pollers["send"] = k) ~> (pollers["send"] /= k)
    /\ ([]<>(pollers["send"] = 0) \/ []<><<TaskHandedOver>>_vars)
    /\ [][pollers'["send"] < pollers["send"] =>
            /\ TaskHandedOver
            /\ dispatcher'.pc = "Wait" \/ PolledTaskLaunched]_vars
    /\ (dispatcher.pc = "Wait") ~> (dispatcher.pc = "select")
    /\ [][(dispatcher.pc = "Wait" /\ dispatcher'.pc /= "Wait") =>
            PolledTaskLaunched]_vars
    /\ [](RoutineBlocked => ENABLED <<RoutineStep>>_vars)

\* A poller waits at the handoff while the dispatcher holds another task in the
\* task limiter, and no permit is left in the channel.
C35_Witness ==
    /\ pollers["send"] >= 1
    /\ dispatcher.pc = "Wait"
    /\ pollerRequestCh = 0
    /\ options.maxConcurrentTask = MaxConcurrentTask

(* ------------------------------- C36 ----------------------------------- *)
\* Every poller, the dispatcher and every processor have exited.
AllExited ==
    /\ LivePollers = 0
    /\ ~DispatcherLive
    /\ LiveProcessors = 0

\* C36: unless a poller stays held by the session gate, once the stop signal
\* is set every poller, the dispatcher and every processor exit and the
\* WaitGroup reaches zero; it then stays at zero with every routine exited.
C36_ShutdownCompletes ==
    /\ \/ <>[](pollers["session"] >= 1)
       \/ isStop ~> (stopWG = 0 /\ AllExited)
    /\ [](isStop /\ stopWG = 0 => AllExited)
    /\ [][(isStop /\ stopWG = 0) => stopWG' = 0]_vars

\* Stop() has returned with the WaitGroup drained after a task was dropped at
\* the handoff and a ProcessTask() call had panicked: every poller has exited
\* and the permit channel is short of the dropped task's permit.
C36_Witness ==
    /\ isStop
    /\ caller = "idle"
    /\ stopResult = "drained"
    /\ stopWG = 0
    /\ pollers["done"] = MaxPollerCount
    /\ dispatcher.pc = "done"
    /\ panics = 1
    /\ pollerRequestCh < options.maxConcurrentTask

(* ------------------------------- C37 ----------------------------------- *)
\* A step in which userContextCancel is invoked.
UserContextCancelled == userContextCancelCalls' /= userContextCancelCalls

\* C37: userContextCancel is invoked only in the step of Stop() in which the
\* wait for the routines ends, with the WaitGroup at zero or by the timeout,
\* and only when it is configured; it has not been invoked while Stop() is
\* before or in that wait, nor while the worker was never started; once Stop()
\* has returned it has been invoked once if configured, and never twice.
C37_UserContextCancelOrder ==
    /\ [][UserContextCancelled =>
            /\ caller = "Stop_await" /\ caller' = "idle"
            /\ limiterContext = "cancelled" /\ isStop
            /\ stopResult = "none"
            /\ stopResult' \in awaitWaitGroup(stopWG)
            /\ options.userContextCancel
            /\ userContextCancelCalls' = userContextCancelCalls + 1]_vars
    /\ [](caller \in {"Stop_cancel", "Stop_await"} => userContextCancelCalls = 0)
    /\ [](~isWorkerStarted => userContextCancelCalls = 0 /\ caller = "idle")
    /\ [](stopResult /= "none" =>
            userContextCancelCalls = IF options.userContextCancel THEN 1 ELSE 0)
    /\ [](stopResult = "none" => userContextCancelCalls = 0)

\* Stop() has returned through the timeout with routines still running, and
\* userContextCancel has been invoked once.
C37_Witness ==
    /\ caller = "idle"
    /\ stopResult = "timeout"
    /\ stopWG > 0
    /\ options.userContextCancel
    /\ userContextCancelCalls = 1

(* ------------------------------- C38 ----------------------------------- *)
\* The routines to which getScope has returned a scope for name in their
\* current call.
HoldScope(name) ==
    {c \in Callers : /\ wrapper.callers[c].scopeName = name
                     /\ wrapper.callers[c].pc \in {"Inc", "service", "handleError", "return"}}

\* C38: SubScope is invoked at most once for each scope name, every routine to
\* which getScope has returned holds the scope stored under its name, and a
\* stored scope is never replaced.
C38_SubScopeOnce ==
    /\ [](\A name \in ScopeNames : wrapper.SubScopeCalls[name] <= 1)
    /\ [](\A name \in ScopeNames : \A c \in HoldScope(name) :
            /\ name \in DOMAIN wrapper.childScopes
            /\ wrapper.callers[c].scope = wrapper.childScopes[name])
    /\ [][\A name \in DOMAIN wrapper.childScopes :
            /\ name \in DOMAIN wrapper'.childScopes
            /\ wrapper'.childScopes[name] = wrapper.childScopes[name]]_vars

\* Both routines called getScope with the same name when it was not cached and
\* both have their scope: SubScope was invoked once.
C38_Witness ==
    /\ \A c \in Callers : /\ wrapper.callers[c].scopeName = "PollForActivityTask"
                          /\ wrapper.callers[c].pc = "service"
    /\ wrapper.SubScopeCalls["PollForActivityTask"] = 1
    /\ wrapper.scopes[wrapper.childScopes["PollForActivityTask"]].CadenceRequest = 2

(* ------------------------------- C39 ----------------------------------- *)
\* The scope of routine c's current call, before and after a step.
ScopeOf(c) == wrapper.scopes[wrapper.callers[c].scope]
ScopeOfNext(c) == wrapper'.scopes[wrapper.callers[c].scope]

\* The counters and the timer of every scope but that of routine c's call are
\* left alone.
OtherScopesUnchanged(c) ==
    /\ Len(wrapper'.scopes) = Len(wrapper.scopes)
    /\ \A i \in 1..Len(wrapper.scopes) :
            i /= wrapper.callers[c].scope => wrapper'.scopes[i] = wrapper.scopes[i]

\* The calls of scope i that have counted their request and not yet recorded
\* their latency.
InService(i) ==
    Cardinality({c \in Callers : /\ wrapper.callers[c].scope = i
                                 /\ wrapper.callers[c].pc \in {"service", "handleError"}})

\* C39: a wrapped call counts its request in the one step before the service
\* is called and nowhere else; the step in which handleError runs records the
\* latency once and increments CadenceInvalidRequest alone for NotFound,
\* InvalidArgument and AlreadyExists, CadenceError alone for any other error and
\* neither for nil; no other step touches a counter; and the call returns the
\* result and the error the service returned.
C39_MetricsPerCall ==
    /\ [][\A c \in Callers :
            (wrapper.callers[c].pc = "Inc" /\ wrapper'.callers[c].pc = "service") =>
                /\ ScopeOfNext(c) = [ScopeOf(c) EXCEPT !.CadenceRequest = @ + 1]
                /\ OtherScopesUnchanged(c)]_vars
    /\ [][\A c \in Callers :
            (wrapper.callers[c].pc = "handleError" /\ wrapper'.callers[c].pc = "return") =>
                LET err == wrapper.callers[c].err IN
                /\ ScopeOfNext(c).CadenceRequest = ScopeOf(c).CadenceRequest
                /\ ScopeOfNext(c).CadenceLatency = ScopeOf(c).CadenceLatency + 1
                /\ ScopeOfNext(c).CadenceInvalidRequest =
                        ScopeOf(c).CadenceInvalidRequest
                        + (IF err \in {"NotFound", "InvalidArgument", "AlreadyExists"}
                           THEN 1 ELSE 0)
                /\ ScopeOfNext(c).CadenceError =
                        ScopeOf(c).CadenceError
                        + (IF err \in {"nil", "NotFound", "InvalidArgument", "AlreadyExists"}
                           THEN 0 ELSE 1)
                /\ OtherScopesUnchanged(c)]_vars
    /\ [][(\A c \in Callers :
                wrapper.callers[c].pc \notin {"Inc", "handleError"}
                \/ wrapper'.callers[c].pc = wrapper.callers[c].pc) =>
            \A i \in 1..Len(wrapper.scopes) : wrapper'.scopes[i] = wrapper.scopes[i]]_vars
    /\ [](\A i \in 1..Len(wrapper.scopes) :
            /\ wrapper.scopes[i].CadenceRequest =
                    wrapper.scopes[i].CadenceLatency + InService(i)
            /\ wrapper.scopes[i].CadenceInvalidRequest + wrapper.scopes[i].CadenceError
                    <= wrapper.scopes[i].CadenceLatency)
    /\ [](\A c \in Callers :
            wrapper.callers[c].returned /= <<>> =>
                wrapper.callers[c].returned =
                    <<wrapper.callers[c].result, wrapper.callers[c].err>>)

\* Three calls of one method have returned, one with nil, one with NotFound
\* and one with Internal: three requests, three latencies, one invalid
\* request and one error; the last call returned its response with its error.
C39_Witness ==
    /\ \A c \in Callers : wrapper.callers[c].pc = "idle"
    /\ Len(wrapper.scopes) = 1
    /\ wrapper.scopes[1] = [name |-> "PollForActivityTask", CadenceRequest |-> 3,
                            CadenceLatency |-> 3, CadenceInvalidRequest |-> 1,
                            CadenceError |-> 1]
    /\ wrapper.callers[1].returned = <<"response", "Internal">>

=============================================================================
